---------------------------- MODULE Spec2Model ----------------------------
(***************************************************************************)
(* A model of the SigV4 signing library (source/sigv4.c): the canonical    *)
(* request pipeline of SigV4_GenerateHTTPAuthorization, its URI and query  *)
(* encoders, the hash / HMAC facade and the processing buffer (arena).     *)
(*                                                                         *)
(* Bytes are the integers 0..255 and byte strings are sequences of bytes.  *)
(* A pointer into the processing buffer is a 0-based offset.               *)
(***************************************************************************)
EXTENDS Integers, Sequences, FiniteSets, TLC

VARIABLES
    build,      \* implementation-defined / undefined choices of the build
    p,          \* SigV4Parameters_t: the caller's inputs of one signing call
    pc,         \* position of the signing call in SigV4_GenerateHTTPAuthorization
    status,     \* returnStatus
    cc,         \* CanonicalContext_t: pBufProcessing, pBufCur, bufRemaining
    qloc,       \* pQueryLoc and numberOfParameters of generateCanonicalQuery
    hs,         \* the crypto interface's hash context, and the calls made on it
    hmacCtx,    \* HmacContext_t: key, keyLen
    sk,         \* signingKey, as an offset / length into the processing buffer
    out,        \* the caller's pAuthBuf, authBufLen, pSignature, signatureLen
    tr,         \* history: the bytes each pipeline step wrote or hashed
    ub,         \* TRUE once the call has executed undefined behaviour
    enc         \* a stand-alone encodeURI call: its inputs and its result

vars == <<build, p, pc, status, cc, qloc, hs, hmacCtx, sk, out, tr, ub, enc>>

---------------------------------------------------------------------------
(* Bounds of the model *)

\* SIGV4_PROCESSING_BUFFER_LENGTH: the size of the processing buffer.
ProcessingLen == 80
\* SIGV4_MAX_QUERY_PAIR_COUNT: the size of pQueryLoc.
MaxQueryPairs == 3
\* hashDigestLen and hashBlockLen of the caller's crypto interface.
DigestLen == 2
BlockLen == 8
\* Length of the inputs of the stand-alone encodeURI calls.
MaxUriLen == 3
\* Length of the exhaustively enumerated query strings.
MaxQueryLen == 4
\* Capacity of the caller's authorization buffer.
AuthBufCap == 100
\* Number of bits of size_t.
SizeBits == 16

---------------------------------------------------------------------------
(* Bytes and byte strings *)

Byte == 0 .. 255

LINEFEED_CHAR == 10
CREDENTIAL_SCOPE_SEPARATOR == 47

\* "AWS4-HMAC-SHA256"
SIGV4_AWS4_HMAC_SHA256 == <<65,87,83,52,45,72,77,65,67,45,83,72,65,50,53,54>>
\* "aws4_request"
CREDENTIAL_SCOPE_TERMINATOR == <<97,119,115,52,95,114,101,113,117,101,115,116>>
\* "AWS4"
SIGV4_HMAC_SIGNING_KEY_PREFIX == <<65,87,83,52>>
\* "s3"
S3_SERVICE_NAME == <<115,51>>
\* "/"
HTTP_EMPTY_PATH == <<47>>

SizeMod == 2 ^ SizeBits

\* size_t subtraction: unsigned, wraps
SizeSub(a, b) == (a - b + SizeMod) % SizeMod

Min(a, b) == IF a < b THEN a ELSE b

\* The one element of a singleton set
The(S) == CHOOSE x \in S : TRUE

\* F applied to the value of v, which is worked out once
Bind(v, F(_)) == The({F(x) : x \in {v}})

\* s[from .. from+n-1] for a 1-based index from
Slice(s, from, n) == The({[i \in 1 .. n |-> t[from + i - 1]] : t \in {s}})

RECURSIVE SeqsUpTo(_, _)
\* All sequences over alphabet A of length at most n
SeqsUpTo(A, n) ==
    IF n = 0 THEN {<<>>}
    ELSE LET S == SeqsUpTo(A, n - 1)
         IN  S \cup {Append(s, a) : s \in {t \in S : Len(t) = n - 1}, a \in A}

RECURSIVE XorBits(_, _, _)
XorBits(a, b, n) ==
    IF n = 0 THEN 0
    ELSE (((a % 2) + (b % 2)) % 2) + (2 * XorBits(a \div 2, b \div 2, n - 1))

\* a ^ b on bytes
Xor(a, b) == XorBits(a, b, 8)

---------------------------------------------------------------------------
(* Byte utilities *)

\* isalnum() in the "C" locale, on the value a char holds on this build:
\* a byte above 0x7F is no letter or digit whether char is signed or not
isalnum(c) ==
    \/ c \in 48 .. 57
    \/ c \in 65 .. 90
    \/ c \in 97 .. 122

\* The int a plain char holding byte c promotes to
CharValue(c, charSigned) == IF charSigned /\ c >= 128 THEN c - 256 ELSE c

\* value >> 4 of a promoted char: an arithmetic shift
ShiftRight4(v) == IF v >= 0 THEN v \div 16 ELSE -(((-v) + 15) \div 16)

\* toUpperHexChar: '0' + value below 10, 'A' + value - 10 otherwise
toUpperHexChar(value) == IF value < 10 THEN 48 + value ELSE (65 + value) - 10

\* digitArr[ n ] of lowercaseHexEncode
LowerHexDigit(n) == IF n < 10 THEN 48 + n ELSE 97 + n - 10
---------------------------------------------------------------------------
(* encodeURI *)

\* "%253D"
DoubleEncodedEquals == <<37, 50, 53, 51, 68>>

\* One pass of the loop body on byte c with bytesConsumed = n and a
\* destination of cap bytes: the bytes stored and the status.
EncodeByte(c, n, cap, encodeSlash, doubleEncodeEquals, charSigned) ==
    IF doubleEncodeEquals /\ c = 61
    THEN IF n + 5 > cap
         THEN [w |-> <<>>, st |-> "InsufficientMemory"]
         ELSE [w |-> DoubleEncodedEquals, st |-> "Success"]
    ELSE IF isalnum(c) \/ c = 45 \/ c = 95 \/ c = 46 \/ c = 126
            \/ (c = 47 /\ ~encodeSlash)
    THEN \* stored before any check of the destination's length
         [w |-> <<c>>, st |-> "Success"]
    ELSE IF n + 3 > cap
         THEN [w |-> <<>>, st |-> "InsufficientMemory"]
         ELSE [w |-> <<37,
                       toUpperHexChar(ShiftRight4(CharValue(c, charSigned))),
                       toUpperHexChar(c % 16)>>,
               st |-> "Success"]

\* The loop body of encodeURI on byte c, with s = [out, status] the bytes
\* stored so far and returnStatus
EncodeStep(c, s, cap, encodeSlash, doubleEncodeEquals, charSigned) ==
    Bind(EncodeByte(c, Len(s.out), cap, encodeSlash, doubleEncodeEquals,
                    charSigned),
         LAMBDA r :
            [out |-> s.out \o r.w,
             status |-> IF r.st # "Success" THEN r.st
                        ELSE IF Len(s.out) + Len(r.w) > cap
                        THEN "InsufficientMemory"
                        ELSE "Success"])

RECURSIVE EncodeLoop(_, _, _, _, _, _, _)
\* The while loop of encodeURI from byte i of uri
EncodeLoop(uri, i, s, cap, encodeSlash, doubleEncodeEquals, charSigned) ==
    IF i > Len(uri) \/ uri[i] = 0 \/ s.status # "Success"
    THEN [out |-> s.out, len |-> Len(s.out), status |-> s.status,
          oob |-> Len(s.out) > cap]
    ELSE Bind(EncodeStep(uri[i], s, cap, encodeSlash, doubleEncodeEquals,
                         charSigned),
              LAMBDA s2 : EncodeLoop(uri, i + 1, s2, cap, encodeSlash,
                                     doubleEncodeEquals, charSigned))

\* encodeURI( pUri, uriLen, pCanonicalURI, &canonicalURILen = cap, ... ):
\* out are the bytes stored at pCanonicalURI, in order; oob tells that the
\* last of them was stored at pCanonicalURI[ cap ], one past the destination.
encodeURI(uri, cap, encodeSlash, doubleEncodeEquals, charSigned) ==
    Bind(uri, LAMBDA u :
        Bind([out |-> <<>>, status |-> "Success"], LAMBDA s0 :
            EncodeLoop(u, 1, s0, cap, encodeSlash, doubleEncodeEquals,
                       charSigned)))

---------------------------------------------------------------------------
(* The caller's crypto interface: a streaming hash on one context *)

RECURSIVE MixFrom(_, _, _, _)
MixFrom(s, i, h, k) ==
    IF i > Len(s) THEN h
    ELSE MixFrom(s, i + 1, ((h * 31) + s[i] + k) % 256, k)

\* The digest the hash gives for the bytes fed to it: hashDigestLen bytes.
\* The hash is the caller's; this one stands for it.
Digest(s) ==
    Bind(s, LAMBDA t : [k \in 1 .. DigestLen |-> MixFrom(t, 1, (7 * k) + 1, k)])

HashEvent(op, data) == [op |-> op, data |-> data]

\* Whether the next call on the context is the one the interface fails
HashFails(h) == h.failAt = Len(h.log) + 1

\* The context after a call of op on hash context g with input d
HashCall(g, op, d) ==
    IF HashFails(g)
    THEN [h |-> [g EXCEPT !.log = Append(@, HashEvent(op, d))],
          rc |-> -1, digest |-> <<>>]
    ELSE [h |-> [acc |-> IF op = "update" THEN g.acc \o d ELSE <<>>,
                 log |-> Append(g.log, HashEvent(op, d)),
                 failAt |-> g.failAt],
          rc |-> 0,
          digest |-> IF op = "final" THEN Digest(g.acc) ELSE <<>>]

\* hashInit( pHashContext )
hashInit(h) == Bind(h, LAMBDA g : HashCall(g, "init", <<>>))

\* hashUpdate( pHashContext, pInput, inputLen )
hashUpdate(h, data) ==
    Bind(h, LAMBDA g : Bind(data, LAMBDA d : HashCall(g, "update", d)))

\* hashFinal( pHashContext, pOutput, outputLen ): digest is what it stores
hashFinal(h) == Bind(h, LAMBDA g : HashCall(g, "final", <<>>))

\* A call that is made only if the one before returned 0
Then(a, F(_)) ==
    Bind(a, LAMBDA r :
        IF r.rc = 0 THEN F(r) ELSE [h |-> r.h, rc |-> r.rc, digest |-> <<>>])

\* completeHash making its three calls whatever they return
completeHashAll(h, input) ==
    Bind(hashInit(h), LAMBDA a :
    Bind(hashUpdate(a.h, input), LAMBDA b : hashFinal(b.h)))

\* completeHash: init, update, final, each only after the last returned 0
completeHash(h, input) ==
    Then(Then(hashInit(h), LAMBDA a : hashUpdate(a.h, input)),
         LAMBDA b : hashFinal(b.h))

\* The 2 * Len(s) lowercase hex digits of s
LowerHex(s) ==
    Bind(s, LAMBDA t :
        [i \in 1 .. 2 * Len(t) |->
            IF i % 2 = 1 THEN LowerHexDigit(t[(i + 1) \div 2] \div 16)
            ELSE LowerHexDigit(t[i \div 2] % 16)])

\* lowercaseHexEncode( pInputStr, pHexOutput ) with pHexOutput->dataLen = cap
lowercaseHexEncode(input, cap) ==
    IF cap < Len(input) * 2
    THEN [status |-> "InsufficientMemory", hex |-> <<>>]
    ELSE [status |-> "Success", hex |-> LowerHex(input)]

\* completeHashAndHexEncode( pInput, inputLen, pOutput, &outputLen = cap ):
\* hex are the bytes stored at pOutput
completeHashAndHexEncode(h, input, cap) ==
    Bind(completeHash(h, input), LAMBDA c :
        IF c.rc # 0
        THEN [h |-> c.h, status |-> "HashError", hex |-> <<>>]
        ELSE Bind(lowercaseHexEncode(c.digest, cap), LAMBDA e :
                [h |-> c.h, status |-> e.status, hex |-> e.hex]))

---------------------------------------------------------------------------
(* HMAC *)

\* HmacContext_t hmacContext = { 0 }
HmacContextInit == [key |-> [i \in 1 .. BlockLen |-> 0], keyLen |-> 0]

\* The first n bytes of the key buffer
KeyBytes(hm, n) == [i \in 1 .. n |-> hm.key[i]]

\* memcpy( key + at, bytes, Len(bytes) ) into the key buffer
KeyStore(key, at, bytes) ==
    [i \in 1 .. BlockLen |->
        IF i > at /\ i <= at + Len(bytes) THEN bytes[i - at] ELSE key[i]]

\* A hash call that has returned 0 without being made
NoCall(h) == [h |-> h, rc |-> 0, digest |-> <<>>]

\* hmacKey hashing a key that fills the block exactly
hmacKeyStrict(hm, h, key) ==
    Bind(hm, LAMBDA m : Bind(key, LAMBDA k :
        IF m.keyLen + Len(k) < BlockLen
        THEN [hm |-> [key |-> KeyStore(m.key, m.keyLen, k),
                      keyLen |-> m.keyLen + Len(k)],
              h |-> h, rc |-> 0]
        ELSE Bind(Then(IF m.keyLen <= BlockLen
                       THEN Then(hashInit(h), LAMBDA i :
                                hashUpdate(i.h, KeyBytes(m, m.keyLen)))
                       ELSE NoCall(h),
                       LAMBDA a : hashUpdate(a.h, k)),
                  LAMBDA b : [hm |-> [m EXCEPT !.keyLen = @ + Len(k)],
                              h |-> b.h, rc |-> b.rc])))

\* hmacKey starting the hash of the key afresh at every chunk past the block
hmacKeyRestart(hm, h, key) ==
    Bind(hm, LAMBDA m : Bind(key, LAMBDA k :
        IF m.keyLen + Len(k) <= BlockLen
        THEN [hm |-> [key |-> KeyStore(m.key, m.keyLen, k),
                      keyLen |-> m.keyLen + Len(k)],
              h |-> h, rc |-> 0]
        ELSE Bind(Then(Then(hashInit(h), LAMBDA i :
                            IF m.keyLen <= BlockLen
                            THEN hashUpdate(i.h, KeyBytes(m, m.keyLen))
                            ELSE i),
                       LAMBDA a : hashUpdate(a.h, k)),
                  LAMBDA b : [hm |-> [m EXCEPT !.keyLen = @ + Len(k)],
                              h |-> b.h, rc |-> b.rc])))

\* hmacKey( pHmacContext, pKey, keyLen )
hmacKey(hm, h, key) ==
    Bind(hm, LAMBDA m : Bind(key, LAMBDA k :
        IF m.keyLen + Len(k) <= BlockLen
        THEN [hm |-> [key |-> KeyStore(m.key, m.keyLen, k),
                      keyLen |-> m.keyLen + Len(k)],
              h |-> h, rc |-> 0]
        ELSE Bind(Then(IF m.keyLen <= BlockLen
                       THEN Then(hashInit(h), LAMBDA i :
                                hashUpdate(i.h, KeyBytes(m, m.keyLen)))
                       ELSE NoCall(h),
                       LAMBDA a : hashUpdate(a.h, k)),
                  LAMBDA b : [hm |-> [m EXCEPT !.keyLen = @ + Len(k)],
                              h |-> b.h, rc |-> b.rc])))

\* The key buffer zeroed from byte n on, then every byte XORed with pad
PadKey(key, n, pad) ==
    [i \in 1 .. BlockLen |-> Xor(IF i <= n THEN key[i] ELSE 0, pad)]

\* hmacData leaving the hash of an over-long key unfinished
hmacDataNoFinal(hm, h, data) ==
    Bind(hm, LAMBDA m :
    Bind([key |-> PadKey(m.key, Min(m.keyLen, BlockLen), 54),
          keyLen |-> Min(m.keyLen, DigestLen)], LAMBDA m2 :
    Bind(Then(Then(hashInit(h), LAMBDA a : hashUpdate(a.h, m2.key)),
              LAMBDA b : IF Len(data) > 0 THEN hashUpdate(b.h, data) ELSE b),
         LAMBDA c : [hm |-> m2, h |-> c.h, rc |-> c.rc])))

\* hmacData( pHmacContext, pData, dataLen )
hmacData(hm, h, data) ==
    Bind(hm, LAMBDA m :
    Bind(IF m.keyLen > BlockLen THEN hashFinal(h) ELSE NoCall(h), LAMBDA f :
    Bind([key |-> IF m.keyLen > BlockLen /\ f.rc = 0
                  THEN KeyStore(m.key, 0, f.digest) ELSE m.key,
          keyLen |-> IF m.keyLen > BlockLen THEN DigestLen ELSE m.keyLen],
         LAMBDA m1 :
    Bind(IF f.rc = 0 THEN [key |-> PadKey(m1.key, m1.keyLen, 54),
                           keyLen |-> m1.keyLen]
         ELSE m1, LAMBDA m2 :
    Bind(Then(Then(Then(f, LAMBDA x : hashInit(x.h)),
                   LAMBDA a : hashUpdate(a.h, m2.key)),
              LAMBDA b : IF Len(data) > 0 THEN hashUpdate(b.h, data) ELSE b),
         LAMBDA c : [hm |-> m2, h |-> c.h, rc |-> c.rc])))))

\* hmacFinal leaving the accumulated key length as it is
hmacFinalNoReset(hm, h) ==
    Bind(hm, LAMBDA m :
    Bind(hashFinal(h), LAMBDA f :
    Bind(IF f.rc = 0 THEN PadKey(m.key, BlockLen, 106) ELSE m.key,
         LAMBDA key1 :
    Bind(Then(Then(Then(Then(f, LAMBDA x : hashInit(x.h)),
                        LAMBDA a : hashUpdate(a.h, key1)),
                   LAMBDA b : hashUpdate(b.h, f.digest)),
              LAMBDA c : hashFinal(c.h)),
         LAMBDA d : [hm |-> [key |-> key1, keyLen |-> m.keyLen], h |-> d.h,
                     rc |-> d.rc, mac |-> d.digest]))))

\* hmacFinal( pHmacContext, pMac, macLen ): mac is what is stored at pMac
hmacFinal(hm, h) ==
    Bind(hm, LAMBDA m :
    Bind(hashFinal(h), LAMBDA f :
    Bind(IF f.rc = 0 THEN PadKey(m.key, BlockLen, 106) ELSE m.key,
         LAMBDA key1 :
    Bind(Then(Then(Then(Then(f, LAMBDA x : hashInit(x.h)),
                        LAMBDA a : hashUpdate(a.h, key1)),
                   LAMBDA b : hashUpdate(b.h, f.digest)),
              LAMBDA c : hashFinal(c.h)),
         LAMBDA d : [hm |-> [key |-> key1, keyLen |-> 0], h |-> d.h,
                     rc |-> d.rc, mac |-> d.digest]))))

\* completeHmac( pHmacContext, pKey, keyLen, pData, dataLen, pOutput,
\*               outputLen, pCryptoInterface )
completeHmac(hm, h, key, data, outputLen) ==
    IF outputLen < DigestLen
    THEN [hm |-> hm, h |-> h, rc |-> -1, mac |-> <<>>]
    ELSE Bind(hmacKey(hm, h, key), LAMBDA k :
         Bind(IF k.rc = 0 THEN hmacData(k.hm, k.h, data) ELSE k, LAMBDA d :
              IF d.rc = 0 THEN hmacFinal(d.hm, d.h)
              ELSE [hm |-> d.hm, h |-> d.h, rc |-> d.rc, mac |-> <<>>]))

---------------------------------------------------------------------------
(* The processing buffer *)

\* buf with the bytes s stored at offset off (0-based)
Poke(buf, off, s) ==
    The({[i \in 1 .. Len(b) |->
            IF i > off /\ i <= off + Len(t) THEN t[i - off] ELSE b[i]] :
         b \in {buf}, t \in {s}})

\* Whether n bytes at offset off lie inside pBufProcessing
InBounds(off, n) == off + n <= ProcessingLen

\* A copy of n bytes from offset src down to offset dst, last byte first:
\* byte j of the destination gets what byte j of the source holds when it
\* is read, which is a byte the copy has stored already if the source byte
\* lies in the destination
CopyBackward(buf, dst, src, n) ==
    The({[i \in 1 .. Len(b) |->
            IF i > dst /\ i <= dst + n
            THEN b[src + (i - dst) + (((n - (i - dst)) \div (src - dst)) * (src - dst))]
            ELSE b[i]] :
         b \in {buf}})

\* memcpy( buf + dst, buf + src, n ) for dst < src. Where the two regions
\* overlap the call is undefined: a build that copies first byte first gives
\* memmove's result, one that copies last byte first does not.
memcpy(buf, dst, src, n, backward) ==
    IF backward /\ src - dst < n
    THEN CopyBackward(buf, dst, src, n)
    ELSE Poke(buf, dst, Slice(buf, src + 1, n))

\* writeLineToCanonicalRequest( pLine, lineLen, pCanonicalContext )
writeLineToCanonicalRequest(c, line) ==
    IF c.rem < Len(line) + 1
    THEN [c |-> c, status |-> "InsufficientMemory"]
    ELSE [c |-> [buf |-> Poke(c.buf, c.cur, Append(line, LINEFEED_CHAR)),
                 cur |-> c.cur + Len(line) + 1,
                 rem |-> c.rem - (Len(line) + 1)],
          status |-> "Success"]

---------------------------------------------------------------------------
(* Canonical URI *)

\* The tail of generateCanonicalURI: the linefeed after the encoded URI,
\* which ends at offset loc, with bufRemaining already reduced to rem
UriLinefeed(c, buf, loc, rem) ==
    IF rem < 1
    THEN [c |-> [buf |-> buf, cur |-> c.cur, rem |-> rem],
          status |-> "InsufficientMemory", ub |-> FALSE]
    ELSE [c |-> [buf |-> Poke(buf, loc, <<LINEFEED_CHAR>>), cur |-> loc + 1,
                 rem |-> rem - 1],
          status |-> "Success", ub |-> FALSE]

\* The second encodeURI of generateCanonicalURI and the memcpy after it,
\* with the first encoding e1 stored in buf1 at c.cur
EncodeTwice(c, buf1, e1, bld) ==
    Bind(encodeURI(Slice(buf1, c.cur + 1, e1.len), c.rem - e1.len, FALSE,
                   FALSE, bld.charSigned),
         LAMBDA e2 :
            IF ~InBounds(c.cur + e1.len, Len(e2.out))
            THEN [c |-> [c EXCEPT !.buf = buf1], status |-> e2.status,
                  ub |-> TRUE]
            ELSE Bind(Poke(buf1, c.cur + e1.len, e2.out), LAMBDA buf2 :
                    IF e2.status # "Success"
                    THEN [c |-> [c EXCEPT !.buf = buf2], status |-> e2.status,
                          ub |-> FALSE]
                    ELSE UriLinefeed(c,
                                     memcpy(buf2, c.cur, c.cur + e1.len,
                                            e2.len, bld.memcpyBackward),
                                     c.cur + e2.len, c.rem - e2.len)))

\* generateCanonicalURI( pUri, uriLen, encodeTwice, pCanonicalRequest ).
\* ub: a byte was stored past the end of the processing buffer.
generateCanonicalURI(c, uri, encodeTwice, bld) ==
    Bind(encodeURI(uri, c.rem, FALSE, FALSE, bld.charSigned), LAMBDA e1 :
        IF ~InBounds(c.cur, Len(e1.out))
        THEN [c |-> c, status |-> e1.status, ub |-> TRUE]
        ELSE Bind(Poke(c.buf, c.cur, e1.out), LAMBDA buf1 :
                IF e1.status # "Success"
                THEN [c |-> [c EXCEPT !.buf = buf1], status |-> e1.status,
                      ub |-> FALSE]
                ELSE IF encodeTwice
                THEN EncodeTwice(c, buf1, e1, bld)
                ELSE UriLinefeed(c, buf1, c.cur + e1.len, c.rem - e1.len)))

---------------------------------------------------------------------------
(* Canonical query *)

\* A SigV4KeyValuePair_t: the key and value slices of the query
Pair(k, v) == [key |-> k, value |-> v]

\* pQueryLoc before anything is stored in it
QueryLocInit == [i \in 0 .. MaxQueryPairs - 1 |-> Pair(<<>>, <<>>)]

\* pQueryLoc[ n ].key = k; a store at n >= SIGV4_MAX_QUERY_PAIR_COUNT is
\* outside the array
StoreKey(s, k) ==
    IF s.n >= MaxQueryPairs THEN [s EXCEPT !.oob = TRUE]
    ELSE [s EXCEPT !.loc[s.n].key = k]

\* pQueryLoc[ n ].value = v
StoreValue(s, v) ==
    IF s.n >= MaxQueryPairs THEN [s EXCEPT !.oob = TRUE]
    ELSE [s EXCEPT !.loc[s.n].value = v]

\* The branch of the loop body of setQueryStringFieldsAndValues that closes a
\* field or a value at index i (already adjusted at the end of the query)
CloseParameter(q, i, s) ==
    IF i - s.start = 0
    THEN s
    ELSE IF ~s.fieldHasValue
    THEN Bind(StoreKey(s, Slice(q, s.start + 1, i - s.start)), LAMBDA s1 :
         Bind(StoreValue(s1, <<>>), LAMBDA s2 :
            [s2 EXCEPT !.start = i + 1, !.n = @ + 1]))
    ELSE Bind(StoreValue(s, Slice(q, s.start + 1, i - s.start)), LAMBDA s1 :
            [s1 EXCEPT !.fieldHasValue = FALSE, !.start = i + 1, !.n = @ + 1])

\* The loop body of setQueryStringFieldsAndValues at index i (0-based), up
\* to the test of numberOfParameters: the state after it, and i after it
SplitStep(q, i, s) ==
    IF q[i + 1] = 61 /\ ~s.fieldHasValue
    THEN Bind(StoreKey(s, Slice(q, s.start + 1, i - s.start)), LAMBDA s1 :
            [s |-> [s1 EXCEPT !.start = i + 1, !.fieldHasValue = TRUE],
             i |-> i])
    ELSE IF i = Len(q) - 1
    THEN [s |-> CloseParameter(q, i + 1, s), i |-> i + 1]
    ELSE IF q[i + 1] = 38 /\ i # 0
    THEN [s |-> CloseParameter(q, i, s), i |-> i]
    ELSE [s |-> s, i |-> i]

RECURSIVE SplitLoop(_, _, _)
\* The for loop of setQueryStringFieldsAndValues from index i
SplitLoop(q, i, s) ==
    IF i >= Len(q) THEN s
    ELSE Bind(SplitStep(q, i, s), LAMBDA r :
            IF r.s.n > MaxQueryPairs THEN r.s
            ELSE SplitLoop(q, r.i + 1, r.s))

\* setQueryStringFieldsAndValues( pQuery, queryLen, &numberOfParameters,
\*                                pCanonicalRequest ): loc is pQueryLoc and n
\* is numberOfParameters after it; oob tells of a store outside pQueryLoc
setQueryStringFieldsAndValues(query) ==
    Bind(query, LAMBDA q :
        Bind([loc |-> QueryLocInit, n |-> 0, start |-> 0,
              fieldHasValue |-> FALSE, oob |-> FALSE],
             LAMBDA s0 : SplitLoop(q, 0, s0)))

RECURSIVE strncmpFrom(_, _, _, _)
strncmpFrom(a, b, i, n) ==
    IF i > n THEN 0
    ELSE IF a[i] # b[i] THEN (IF a[i] < b[i] THEN -1 ELSE 1)
    ELSE IF a[i] = 0 THEN 0
    ELSE strncmpFrom(a, b, i + 1, n)

\* The sign of strncmp( a, b, n ): bytes compare as unsigned char, and the
\* comparison stops after a zero byte
strncmp(a, b, n) == strncmpFrom(a, b, 1, n)

\* cmpQueryFieldValue( pFirstVal, pSecondVal )
cmpQueryFieldValue(first, second) ==
    Bind(strncmp(first.key, second.key,
                 Min(Len(first.key), Len(second.key))),
         LAMBDA keyCmp :
    Bind(IF keyCmp # 0 THEN keyCmp
         ELSE IF Len(first.key) = Len(second.key)
         THEN strncmp(first.value, second.value,
                      Min(Len(first.value), Len(second.value)))
         ELSE IF Len(first.key) < Len(second.key) THEN -1 ELSE 1,
         LAMBDA compResult :
            IF compResult = 0 /\ Len(first.value) # Len(second.value)
            THEN IF Len(first.value) < Len(second.value) THEN -1 ELSE 1
            ELSE compResult))

\* cmpKeyValue( pFirstVal, pSecondVal ): the sign of what it returns
cmpKeyValue(first, second) ==
    strncmp(first.key, second.key,
            IF Len(first.key) <= Len(second.key) THEN Len(first.key)
            ELSE Len(second.key))

\* The permutations of 1 .. n
Perms(n) ==
    {f \in [1 .. n -> 1 .. n] : \A i, j \in 1 .. n : f[i] = f[j] => i = j}

\* qsort( pQueryLoc, n, sizeof( SigV4KeyValuePair_t ), cmpQueryFieldValue ):
\* every order of the first n records that the comparator accepts; records
\* that compare equal may come out in either order
qsort(loc, n) ==
    {[i \in 0 .. MaxQueryPairs - 1 |->
         IF i < n THEN loc[f[i + 1] - 1] ELSE loc[i]] :
        f \in {g \in Perms(n) :
                 \A i, j \in 1 .. n :
                    i < j => cmpQueryFieldValue(loc[g[i] - 1],
                                                loc[g[j] - 1]) <= 0}}

\* writeCanonicalQueryParameters, one record: the encoded key.
\* w: [buf, loc, rl, status, ub], with loc = pBufLoc, rl = remainingLen
WriteKey(w, key, charSigned) ==
    Bind(encodeURI(key, w.rl, TRUE, FALSE, charSigned), LAMBDA k :
        IF ~InBounds(w.loc, Len(k.out))
        THEN [w EXCEPT !.status = k.status, !.ub = TRUE]
        ELSE IF k.status # "Success"
        THEN [w EXCEPT !.buf = Poke(@, w.loc, k.out), !.status = k.status]
        ELSE [w EXCEPT !.buf = Poke(@, w.loc, k.out), !.loc = @ + k.len,
                       !.rl = @ - k.len])

\* writeCanonicalQueryParameters, one record: '=' and the encoded value
WriteValue(w, value, charSigned) ==
    IF Len(value) = 0 THEN w
    ELSE IF w.rl < 1 THEN [w EXCEPT !.status = "InsufficientMemory"]
    ELSE Bind(encodeURI(value, w.rl - 1, TRUE, TRUE, charSigned), LAMBDA v :
            IF ~InBounds(w.loc, 1 + Len(v.out))
            THEN [w EXCEPT !.status = v.status, !.ub = TRUE]
            ELSE IF v.status # "Success"
            THEN [w EXCEPT !.buf = Poke(@, w.loc, <<61>> \o v.out),
                           !.loc = @ + 1, !.rl = @ - 1, !.status = v.status]
            ELSE [w EXCEPT !.buf = Poke(@, w.loc, <<61>> \o v.out),
                           !.loc = @ + 1 + v.len, !.rl = @ - 1 - v.len])

\* writeCanonicalQueryParameters, one record: the '&' after it
WriteSeparator(w, isLast) ==
    IF w.rl < 1 /\ ~isLast THEN [w EXCEPT !.status = "InsufficientMemory"]
    ELSE IF ~isLast /\ w.status = "Success"
    THEN IF ~InBounds(w.loc, 1) THEN [w EXCEPT !.ub = TRUE]
         ELSE [w EXCEPT !.buf = Poke(@, w.loc, <<38>>), !.loc = @ + 1,
                        !.rl = @ - 1]
    ELSE w

\* One pass of the loop of writeCanonicalQueryParameters
WriteParameter(w, pair, isLast, charSigned) ==
    Bind(WriteKey(w, pair.key, charSigned), LAMBDA w1 :
        IF w1.ub THEN w1
        ELSE Bind(IF w1.status = "Success"
                  THEN WriteValue(w1, pair.value, charSigned) ELSE w1,
                  LAMBDA w2 :
                    IF w2.ub THEN w2 ELSE WriteSeparator(w2, isLast)))

RECURSIVE WriteLoop(_, _, _, _, _, _)
\* The for loop of writeCanonicalQueryParameters from record i (0-based)
WriteLoop(c, w, loc, n, i, charSigned) ==
    IF i >= n THEN [c |-> c, status |-> "Success", ub |-> FALSE]
    ELSE Bind(WriteParameter(w, loc[i], n = i + 1, charSigned), LAMBDA w2 :
            IF w2.ub
            THEN [c |-> c, status |-> w2.status, ub |-> TRUE]
            ELSE IF w2.status # "Success"
            THEN [c |-> [c EXCEPT !.buf = w2.buf], status |-> w2.status,
                  ub |-> FALSE]
            ELSE Bind([buf |-> w2.buf, cur |-> w2.loc, rem |-> w2.rl],
                      LAMBDA c2 :
                        WriteLoop(c2, w2, loc, n, i + 1, charSigned)))

\* writeCanonicalQueryParameters( pCanonicalRequest, numberOfParameters )
writeCanonicalQueryParameters(c, loc, n, charSigned) ==
    Bind([buf |-> c.buf, loc |-> c.cur, rl |-> c.rem, status |-> "Success",
          ub |-> FALSE],
         LAMBDA w0 : WriteLoop(c, w0, loc, n, 0, charSigned))

\* The end of generateCanonicalQuery: the parameters, then a linefeed that
\* is stored without a look at bufRemaining
WriteQueryAndLinefeed(c, loc, n, charSigned) ==
    Bind(writeCanonicalQueryParameters(c, loc, n, charSigned), LAMBDA r :
        IF r.ub \/ r.status # "Success" THEN r
        ELSE IF ~InBounds(r.c.cur, 1)
        THEN [c |-> r.c, status |-> "Success", ub |-> TRUE]
        ELSE [c |-> [buf |-> Poke(r.c.buf, r.c.cur, <<LINEFEED_CHAR>>),
                     cur |-> r.c.cur + 1,
                     rem |-> SizeSub(r.c.rem, 1)],
              status |-> "Success", ub |-> FALSE])

---------------------------------------------------------------------------
(* String to sign and signing key *)

\* The date string is SIGV4_ISO_STRING_LEN bytes, of which the first
\* ISO_DATE_SCOPE_LEN are the day
SIGV4_ISO_STRING_LEN == 16

ISO_DATE_SCOPE_LEN == 8

\* sizeNeededForCredentialScope( pSigV4Params )
sizeNeededForCredentialScope(pr) ==
    ISO_DATE_SCOPE_LEN + 1 + Len(pr.region) + 1 + Len(pr.service) + 1
        + Len(CREDENTIAL_SCOPE_TERMINATOR) + 1

\* generateCredentialScope copying the whole date string, not its first
\* ISO_DATE_SCOPE_LEN bytes
generateCredentialScopeWholeDate(pr) ==
    pr.date \o <<CREDENTIAL_SCOPE_SEPARATOR>>
        \o pr.region \o <<CREDENTIAL_SCOPE_SEPARATOR>>
        \o pr.service \o <<CREDENTIAL_SCOPE_SEPARATOR>>
        \o CREDENTIAL_SCOPE_TERMINATOR \o <<LINEFEED_CHAR>>

\* The bytes generateCredentialScope stores at pCredScope->pData
generateCredentialScope(pr) ==
    Slice(pr.date, 1, ISO_DATE_SCOPE_LEN) \o <<CREDENTIAL_SCOPE_SEPARATOR>>
        \o pr.region \o <<CREDENTIAL_SCOPE_SEPARATOR>>
        \o pr.service \o <<CREDENTIAL_SCOPE_SEPARATOR>>
        \o CREDENTIAL_SCOPE_TERMINATOR \o <<LINEFEED_CHAR>>

\* The bytes writeStringToSignPrefix stores at the start of the buffer
writeStringToSignPrefix(algorithm, date) ==
    algorithm \o <<LINEFEED_CHAR>> \o Slice(date, 1, SIGV4_ISO_STRING_LEN)
        \o <<LINEFEED_CHAR>>

\* writeStringToSign once the canonical request is hashed to e: prefix is
\* what writeStringToSignPrefix and generateCredentialScope store
MoveHashAndWritePrefix(c, e, sizeNeededBeforeHash, prefix) ==
    IF ~InBounds(c.cur + 1, Len(e.hex))
    THEN [c |-> c, h |-> e.h, status |-> e.status, ub |-> TRUE]
    ELSE IF sizeNeededBeforeHash + (DigestLen * 2) > ProcessingLen
    THEN [c |-> [c EXCEPT !.buf = Poke(@, c.cur + 1, e.hex)], h |-> e.h,
          status |-> "InsufficientMemory", ub |-> FALSE]
    ELSE [c |-> [buf |-> Poke(Poke(c.buf, c.cur + 1, e.hex), 0,
                              prefix \o e.hex),
                 cur |-> sizeNeededBeforeHash + Len(e.hex),
                 rem |-> ProcessingLen - Len(e.hex) - sizeNeededBeforeHash],
          h |-> e.h, status |-> "Success", ub |-> FALSE]

\* writeStringToSign( pParams, pCanonicalContext )
writeStringToSign(pr, c, h) ==
    Bind(completeHashAndHexEncode(h, Slice(c.buf, 1, c.cur), c.rem),
         LAMBDA e :
            IF e.status # "Success"
            THEN [c |-> c, h |-> e.h, status |-> e.status, ub |-> FALSE]
            ELSE Bind(IF Len(pr.algorithm) = 0 THEN SIGV4_AWS4_HMAC_SHA256
                      ELSE pr.algorithm,
                      LAMBDA algorithm :
                        MoveHashAndWritePrefix(
                            c, e,
                            Len(algorithm) + 1 + SIGV4_ISO_STRING_LEN + 1
                                + sizeNeededForCredentialScope(pr),
                            writeStringToSignPrefix(algorithm, pr.date)
                                \o generateCredentialScope(pr))))

\* One completeHmac of generateSigningKey: the key is read from the buffer
\* at keyOff (or given, when keyOff < 0), the MAC stored at outOff.
\* g: [buf, hm, h, rc, ub]
KeyStage(g, keyOff, givenKey, data, outOff, outputLen) ==
    IF g.rc # 0 \/ g.ub THEN g
    ELSE Bind(completeHmac(g.hm, g.h,
                           IF keyOff < 0 THEN givenKey
                           ELSE Slice(g.buf, keyOff + 1, DigestLen),
                           data, outputLen),
              LAMBDA m :
                IF m.rc = 0 /\ ~InBounds(outOff, DigestLen)
                THEN [g EXCEPT !.hm = m.hm, !.h = m.h, !.ub = TRUE]
                ELSE [buf |-> IF m.rc = 0 THEN Poke(g.buf, outOff, m.mac)
                              ELSE g.buf,
                      hm |-> m.hm, h |-> m.h, rc |-> m.rc, ub |-> FALSE])

\* generateSigningKey( pSigV4Params, pHmacContext, pSigningKey,
\*                     pBytesRemaining ), with pSigningKey = [off, len] and
\* *pBytesRemaining = c.rem. The comparison of line 1696 has no effect.
generateSigningKey(pr, hm, h, c, key) ==
    Bind(hmacKey(hm, h, SIGV4_HMAC_SIGNING_KEY_PREFIX), LAMBDA k0 :
    Bind([buf |-> c.buf, hm |-> k0.hm, h |-> k0.h, rc |-> k0.rc,
          ub |-> FALSE], LAMBDA g0 :
    Bind(KeyStage(g0, -1, pr.secret, Slice(pr.date, 1, ISO_DATE_SCOPE_LEN),
                  key.off, key.len), LAMBDA g1 :
    Bind(IF g0.rc = 0 THEN SizeSub(c.rem, DigestLen) ELSE c.rem,
         LAMBDA rem1 :
    Bind(key.off + DigestLen + 1, LAMBDA pSigningKeyStart :
    Bind(KeyStage(g1, key.off, <<>>, pr.region, pSigningKeyStart, rem1),
         LAMBDA g2 :
    Bind(KeyStage(g2, pSigningKeyStart, <<>>, pr.service, key.off,
                  DigestLen), LAMBDA g3 :
    Bind(KeyStage(g3, key.off, <<>>, CREDENTIAL_SCOPE_TERMINATOR,
                  pSigningKeyStart, DigestLen), LAMBDA g4 :
        [c |-> [buf |-> g4.buf, cur |-> c.cur,
                rem |-> IF g1.rc = 0 /\ ~g1.ub THEN SizeSub(rem1, DigestLen)
                        ELSE rem1],
         hm |-> g4.hm, h |-> g4.h,
         key |-> IF g4.rc = 0
                 THEN [off |-> pSigningKeyStart, len |-> DigestLen]
                 ELSE key,
         status |-> IF g4.rc = 0 THEN "Success" ELSE "HashError",
         ub |-> g4.ub]))))))))

\* The members of the parameters that verifySigV4Parameters looks at, in
\* the order of its tests
RequiredMembers ==
    <<"pParams", "pCredentials", "pAccessKeyId", "pSecretAccessKey",
      "pSecurityToken", "pExpiration", "pDateIso8601", "pRegion", "pService",
      "pCryptoInterface", "pHashContext", "pHttpParameters", "pHttpMethod",
      "pQuery", "pHeaders">>

\* verifySigV4Parameters( pParams ), for parameters whose NULL members are
\* the set missing
verifySigV4Parameters(missing) ==
    IF \E i \in 1 .. Len(RequiredMembers) : RequiredMembers[i] \in missing
    THEN "InvalidParameter"
    ELSE "Success"

---------------------------------------------------------------------------
(* Inputs *)

SigV4Statuses ==
    {"Success", "InvalidParameter", "InsufficientMemory", "ISOFormattingError",
     "MaxHeaderPairCountExceeded", "MaxQueryPairCountExceeded", "HashError",
     "InvalidHttpHeaders"}

\* What a call can come to once it has done something undefined: any return
\* value, or no return at all
UndefinedOutcomes == SigV4Statuses \cup {"Trap"}

\* charSigned: plain char is a signed type; memcpyBackward: memcpy copies
\* from the last byte to the first
Builds == [charSigned : BOOLEAN, memcpyBackward : BOOLEAN]

AllFlags == {"PATH_IS_CANONICAL", "QUERY_IS_CANONICAL",
             "HEADERS_ARE_CANONICAL", "PAYLOAD_IS_HASH"}

\* "20150830T123600Z"
BaseDate == <<50, 48, 49, 53, 48, 56, 51, 48, 84, 49, 50, 51, 54, 48, 48, 90>>

\* GET / ?a=1 with one canonical header line "h:v\n\nh" and payload "p",
\* signed for service "ec" in region "r" with secret "k"
BaseParams ==
    [method |-> <<71, 69, 84>>, path |-> <<47>>, query |-> <<97, 61, 49>>,
     headers |-> <<104, 58, 118, 10, 10, 104>>, payload |-> <<112>>,
     flags |-> {}, service |-> <<101, 99>>, region |-> <<114>>,
     secret |-> <<107>>, accessKeyId |-> <<65, 75>>, date |-> BaseDate,
     algorithm |-> <<>>, missing |-> {}, failAt |-> 0]

PathAlphabet == {47, 97, 32, 233}

\* "s3", "s3x", "ec", "S3", "s"
Services == {<<115, 51>>, <<115, 51, 120>>, <<101, 99>>, <<83, 51>>, <<115>>}

\* 'b=2&a=1&b=1', 'filter=a=b', 'a=&b=1', 'a=', 'a=1&&b=2', 'a', and two
\* queries with a zero byte or a byte above 0x7F in a key
SampleQueries ==
    {<<98, 61, 50, 38, 97, 61, 49, 38, 98, 61, 49>>,
     <<102, 105, 108, 116, 101, 114, 61, 97, 61, 98>>,
     <<97, 61, 38, 98, 61, 49>>,
     <<97, 61>>,
     <<97, 61, 49, 38, 38, 98, 61, 50>>,
     <<97>>,
     <<97, 0, 99, 61, 49, 38, 97, 0, 98, 61, 50>>,
     <<233, 61, 49>>,
     <<97, 38, 98, 38, 99, 38, 100, 38, 101>>}

\* Members the call never reads, and members it reads in its first lines
MissingChoices ==
    {{}, {"pAccessKeyId"}, {"pSecurityToken"}, {"pExpiration"},
     {"pHttpParameters"}, {"pParams"}}

\* The most hash calls one signature makes
MaxHashCalls == 40

\* Lengths of a method that leave little or nothing of the buffer
LongLens == (ProcessingLen - 12) .. ProcessingLen

\* Headers as received: 'B: 2' and 'A:  1  x ', 'h:v', and 'c:3', 'b:2',
\* 'a:1', each line ended by CR LF and the block by an empty line
SampleHeaders ==
    {<<66, 58, 32, 50, 13, 10, 65, 58, 32, 32, 49, 32, 32, 120, 32, 13, 10,
       13, 10>>,
     <<104, 58, 118, 13, 10, 13, 10>>,
     <<99, 58, 51, 13, 10, 98, 58, 50, 13, 10, 97, 58, 49, 13, 10, 13, 10>>}

\* Lengths of a region that leave the signing key little or nothing of the
\* buffer after the string to sign
LongRegionLens == (ProcessingLen - 70) .. (ProcessingLen - 64)

\* The parameter sets of the calls, each varying a few members of the base
ParamChoices ==
    {[BaseParams EXCEPT !.path = u, !.service = sv, !.flags = f] :
        u \in SeqsUpTo(PathAlphabet, MaxUriLen), sv \in Services,
        f \in {{}, {"PATH_IS_CANONICAL"}}}
    \cup {[BaseParams EXCEPT !.query = q, !.flags = f] :
            q \in SampleQueries, f \in {{}, {"QUERY_IS_CANONICAL"}}}
    \cup {[BaseParams EXCEPT !.flags = f, !.payload = pl] :
            f \in SUBSET AllFlags, pl \in {<<>>, <<112>>, <<97, 98, 99, 100>>}}
    \cup {[BaseParams EXCEPT !.missing = m, !.flags = f] :
            m \in MissingChoices, f \in {{}, AllFlags}}
    \cup {[BaseParams EXCEPT !.failAt = k, !.secret = sc] :
            k \in 0 .. MaxHashCalls,
            sc \in {<<107>>, <<107, 49, 50, 51, 52, 53, 54, 55, 56>>}}
    \cup {[BaseParams EXCEPT !.method = [i \in 1 .. n |-> 77], !.flags = f,
                             !.path = u] :
            n \in LongLens, f \in {{}, AllFlags}, u \in {<<47>>, <<32>>}}
    \cup {[BaseParams EXCEPT !.algorithm = <<88>>, !.region = rg] :
            rg \in {<<>>, <<114>>}}
    \cup {[BaseParams EXCEPT !.headers = h] : h \in SampleHeaders}
    \cup {[BaseParams EXCEPT !.region = [i \in 1 .. n |-> 114]] :
            n \in LongRegionLens}

\* What the call is given to write to
OutInit ==
    [authBuf |-> [i \in 1 .. AuthBufCap |-> 0], authBufLen |-> AuthBufCap,
     signature |-> -1, signatureLen |-> 0]

ContextInit ==
    [buf |-> [i \in 1 .. ProcessingLen |-> 0], cur |-> 0,
     rem |-> ProcessingLen]

EncIdle == [uri |-> <<>>, encodeSlash |-> FALSE, doubleEncodeEquals |-> FALSE,
            cap |-> 0, called |-> TRUE, out |-> <<>>, len |-> 0,
            status |-> "Success"]

\* What the call has done so far: the steps run, the offset the query block
\* starts at, the bytes hashed as the canonical request, the string to sign,
\* the signing key and the hex output
TraceInit == [steps |-> <<>>, queryAt |-> 0, hashed |-> <<>>, sts |-> <<>>,
              key |-> <<>>, hex |-> <<>>]

Init ==
    /\ build \in Builds
    /\ p \in ParamChoices
    /\ pc = "method"
    /\ status = "Success"
    /\ cc = ContextInit
    /\ qloc = [loc |-> QueryLocInit, n |-> 0]
    /\ hs = [acc |-> <<>>, log |-> <<>>, failAt |-> p.failAt]
    /\ hmacCtx = HmacContextInit
    /\ sk = [off |-> 0, len |-> 0]
    /\ out = OutInit
    /\ tr = TraceInit
    /\ ub = FALSE
    /\ enc = EncIdle

---------------------------------------------------------------------------
(* SigV4_GenerateHTTPAuthorization, one action per step of its body *)

\* The call returns st
Return(st) == pc' = "done" /\ status' = st /\ ub' = ub

\* The call has done something undefined
Undefined == pc' = "done" /\ status' \in UndefinedOutcomes /\ ub' = TRUE

\* The end of a step that ended with status st: on to the step next, or out
StepEnd(st, undefined, next) ==
    IF undefined THEN Undefined
    ELSE IF st # "Success" THEN Return(st)
    ELSE pc' = next /\ status' = "Success" /\ ub' = ub

Ran(step) == [tr EXCEPT !.steps = Append(@, step)]

\* Lines 1854-1864; the commented-out verifySigV4Parameters leaves
\* returnStatus at Success, so the method line is always written
WriteMethod ==
    /\ pc = "method"
    /\ IF p.missing \cap {"pParams", "pHttpParameters", "pHttpMethod"} # {}
       THEN Undefined /\ cc' = cc /\ tr' = tr
       ELSE \E r \in {writeLineToCanonicalRequest(ContextInit, p.method)} :
               /\ cc' = r.c
               /\ tr' = Ran("method")
               /\ StepEnd(r.status, FALSE, "path")
    /\ UNCHANGED <<build, p, qloc, hs, hmacCtx, sk, out, enc>>

\* Lines 1866-1899
WritePath ==
    /\ pc = "path"
    /\ \E pPath \in {IF Len(p.path) = 0 THEN HTTP_EMPTY_PATH ELSE p.path} :
       \E r \in {IF "PATH_IS_CANONICAL" \in p.flags
                 THEN Bind(writeLineToCanonicalRequest(cc, pPath), LAMBDA w :
                         [c |-> w.c, status |-> w.status, ub |-> FALSE])
                 ELSE IF Len(p.service) >= Len(S3_SERVICE_NAME)
                         /\ strncmp(p.service, S3_SERVICE_NAME,
                                    Len(S3_SERVICE_NAME)) = 0
                 THEN generateCanonicalURI(cc, pPath, FALSE, build)
                 ELSE generateCanonicalURI(cc, pPath, TRUE, build)} :
          /\ cc' = r.c
          /\ tr' = Ran("path")
          /\ StepEnd(r.status, r.ub, "query")
    /\ UNCHANGED <<build, p, qloc, hs, hmacCtx, sk, out, enc>>

\* Lines 1901-1910: the query is written as it is
WriteQueryLine ==
    /\ pc = "query"
    /\ "QUERY_IS_CANONICAL" \in p.flags
    /\ \E r \in {writeLineToCanonicalRequest(cc, p.query)} :
          /\ cc' = r.c
          /\ tr' = Ran("query")
          /\ StepEnd(r.status, FALSE, "headers")
    /\ UNCHANGED <<build, p, qloc, hs, hmacCtx, sk, out, enc>>

\* generateCanonicalQuery up to its test of numberOfParameters
SplitQuery ==
    /\ pc = "query"
    /\ "QUERY_IS_CANONICAL" \notin p.flags
    /\ \E s \in {setQueryStringFieldsAndValues(p.query)} :
          /\ qloc' = [loc |-> s.loc, n |-> s.n]
          /\ StepEnd(IF s.n > MaxQueryPairs THEN "MaxQueryPairCountExceeded"
                     ELSE "Success",
                     s.oob, "qsort")
    /\ tr' = [Ran("query") EXCEPT !.queryAt = cc.cur]
    /\ UNCHANGED <<build, p, cc, hs, hmacCtx, sk, out, enc>>

\* generateCanonicalQuery: the qsort call
SortQuery ==
    /\ pc = "qsort"
    /\ \E sorted \in qsort(qloc.loc, qloc.n) :
          qloc' = [qloc EXCEPT !.loc = sorted]
    /\ pc' = "qwrite"
    /\ UNCHANGED <<build, p, status, cc, hs, hmacCtx, sk, out, tr, ub, enc>>

\* generateCanonicalQuery from writeCanonicalQueryParameters to its end
WriteQuery ==
    /\ pc = "qwrite"
    /\ \E r \in {WriteQueryAndLinefeed(cc, qloc.loc, qloc.n,
                                       build.charSigned)} :
          /\ cc' = r.c
          /\ StepEnd(r.status, r.ub, "headers")
    /\ UNCHANGED <<build, p, qloc, hs, hmacCtx, sk, out, tr, enc>>

\* Lines 1917-1933: without the flag nothing is written for the headers
WriteHeaders ==
    /\ pc = "headers"
    /\ \E r \in {IF "HEADERS_ARE_CANONICAL" \in p.flags
                 THEN writeLineToCanonicalRequest(cc, p.headers)
                 ELSE [c |-> cc, status |-> "Success"]} :
          /\ cc' = r.c
          /\ StepEnd(r.status, FALSE, "payload")
    /\ tr' = Ran("headers")
    /\ UNCHANGED <<build, p, qloc, hs, hmacCtx, sk, out, enc>>

\* Lines 1935-1950: the payload is hashed whatever the flags are
HashPayload ==
    /\ pc = "payload"
    /\ \E e \in {completeHashAndHexEncode(hs, p.payload, cc.rem)} :
          /\ hs' = e.h
          /\ cc' = IF e.status = "Success" /\ InBounds(cc.cur, Len(e.hex))
                   THEN [buf |-> Poke(cc.buf, cc.cur, e.hex),
                         cur |-> cc.cur + Len(e.hex),
                         rem |-> cc.rem - Len(e.hex)]
                   ELSE cc
          /\ StepEnd(e.status, ~InBounds(cc.cur, Len(e.hex)), "sts")
    /\ tr' = Ran("payload")
    /\ UNCHANGED <<build, p, qloc, hmacCtx, sk, out, enc>>

\* Lines 1952-1956
WriteStringToSign ==
    /\ pc = "sts"
    /\ \E r \in {writeStringToSign(p, cc, hs)} :
          /\ cc' = r.c
          /\ hs' = r.h
          /\ tr' = [Ran("sts") EXCEPT
                       !.hashed = Slice(cc.buf, 1, cc.cur),
                       !.sts = IF r.status = "Success" /\ ~r.ub
                               THEN Slice(r.c.buf, 1, r.c.cur) ELSE <<>>]
          /\ StepEnd(r.status, r.ub, "key")
    /\ UNCHANGED <<build, p, qloc, hmacCtx, sk, out, enc>>

\* Lines 1958-1969
GenerateSigningKey ==
    /\ pc = "key"
    /\ \E r \in {generateSigningKey(p, HmacContextInit, hs, cc,
                                    [off |-> cc.cur, len |-> cc.rem])} :
          /\ cc' = r.c
          /\ hs' = r.h
          /\ hmacCtx' = r.hm
          /\ sk' = r.key
          /\ tr' = [Ran("key") EXCEPT
                       !.key = IF r.status = "Success" /\ ~r.ub
                               THEN Slice(r.c.buf, r.key.off + 1, DigestLen)
                               ELSE <<>>]
          /\ StepEnd(r.status, r.ub, "hex")
    /\ UNCHANGED <<build, p, qloc, out, enc>>

\* The size the call gives for its hex output
HexEncodedHmacLen == 64

\* Lines 1971-1991: the bytes at signingKey are hex-encoded to the start of
\* the processing buffer and printed; nothing is stored through pAuthBuf,
\* authBufLen, pSignature or signatureLen
HexEncodeSigningKey ==
    /\ pc = "hex"
    /\ \E e \in {lowercaseHexEncode(Slice(cc.buf, sk.off + 1, DigestLen),
                                    HexEncodedHmacLen)} :
          /\ cc' = [cc EXCEPT !.buf = Poke(@, 0, e.hex)]
          /\ tr' = [Ran("hex") EXCEPT !.hex = e.hex]
          /\ Return(e.status)
    /\ UNCHANGED <<build, p, qloc, hs, hmacCtx, sk, out, enc>>

Next ==
    \/ WriteMethod
    \/ WritePath
    \/ WriteQueryLine
    \/ SplitQuery
    \/ SortQuery
    \/ WriteQuery
    \/ WriteHeaders
    \/ HashPayload
    \/ WriteStringToSign
    \/ GenerateSigningKey
    \/ HexEncodeSigningKey

Spec == Init /\ [][Next]_vars

---------------------------------------------------------------------------
(* encodeURI on its own *)

\* 0x00, 'a', '/', '=', ' ', 0xE9
EncodeAlphabet == {0, 97, 47, 61, 32, 233}

\* The longest image of one byte
MaxImageLen == 5

\* Destination sizes: too small, and large enough for any input
EncodeCaps == {1, 3, MaxImageLen * MaxUriLen}

InitEncode ==
    /\ build \in {b \in Builds : ~b.memcpyBackward}
    /\ p = BaseParams
    /\ pc = "encode"
    /\ status = "Success"
    /\ cc = ContextInit
    /\ qloc = [loc |-> QueryLocInit, n |-> 0]
    /\ hs = [acc |-> <<>>, log |-> <<>>, failAt |-> 0]
    /\ hmacCtx = HmacContextInit
    /\ sk = [off |-> 0, len |-> 0]
    /\ out = OutInit
    /\ tr = TraceInit
    /\ ub = FALSE
    /\ enc \in [uri : SeqsUpTo(EncodeAlphabet, MaxUriLen) \ {<<>>},
                encodeSlash : BOOLEAN, doubleEncodeEquals : BOOLEAN,
                cap : EncodeCaps, called : {FALSE}, out : {<<>>}, len : {0},
                status : {"Success"}]

\* One call of encodeURI; a byte stored past the destination is undefined
EncodeURI ==
    /\ pc = "encode"
    /\ ~enc.called
    /\ \E r \in {encodeURI(enc.uri, enc.cap, enc.encodeSlash,
                           enc.doubleEncodeEquals, build.charSigned)} :
       \E st \in IF r.oob THEN UndefinedOutcomes ELSE {r.status} :
          /\ enc' = [enc EXCEPT !.called = TRUE, !.out = r.out,
                                !.len = r.len, !.status = st]
          /\ ub' = r.oob
    /\ pc' = "done"
    /\ UNCHANGED <<build, p, status, cc, qloc, hs, hmacCtx, sk, out, tr>>

SpecEncode == InitEncode /\ [][EncodeURI]_vars

---------------------------------------------------------------------------
(* generateCanonicalQuery on its own *)

\* 'a', 'b', '=', '&', 0x00
QueryAlphabet == {97, 98, 61, 38, 0}

\* What is left of the processing buffer when the query is reached: all of
\* it, or as much as a three-byte canonical query takes
QueryRoom == {ProcessingLen, 3}

InitQuery ==
    /\ build \in {b \in Builds : ~b.memcpyBackward}
    /\ p \in {[BaseParams EXCEPT !.query = q] :
                q \in (SeqsUpTo(QueryAlphabet, MaxQueryLen) \ {<<>>})
                        \cup SampleQueries}
    /\ pc = "query"
    /\ status = "Success"
    /\ cc \in {[ContextInit EXCEPT !.cur = ProcessingLen - r, !.rem = r] :
                 r \in QueryRoom}
    /\ qloc = [loc |-> QueryLocInit, n |-> 0]
    /\ hs = [acc |-> <<>>, log |-> <<>>, failAt |-> 0]
    /\ hmacCtx = HmacContextInit
    /\ sk = [off |-> 0, len |-> 0]
    /\ out = OutInit
    /\ tr = TraceInit
    /\ ub = FALSE
    /\ enc = EncIdle

NextQuery ==
    \/ SplitQuery
    \/ SortQuery
    \/ WriteQuery

SpecQuery == InitQuery /\ [][NextQuery]_vars

---------------------------------------------------------------------------
(* completeHmac on its own *)

\* How many bytes longer than a block the longest key is
MaxKeyOver == 2

\* The most hash calls one completeHmac makes
MaxHmacCalls == 12

\* Keys of every length up to MaxKeyOver bytes more than a block
HmacKeys ==
    {[i \in 1 .. n |-> ((i * 37) + (s * 101)) % 256] :
        n \in 0 .. BlockLen + MaxKeyOver, s \in 0 .. 2}

HmacDatas == {<<>>, <<1>>, <<200, 0, 7>>}

\* A context that has been used before: keyLen is 0, the key bytes are not
HmacContextUsed == [key |-> [i \in 1 .. BlockLen |-> 255 - i], keyLen |-> 0]

InitHmac ==
    /\ build \in {b \in Builds : ~b.memcpyBackward /\ ~b.charSigned}
    /\ p \in [key : HmacKeys, data : HmacDatas,
              outputLen : {DigestLen - 1, DigestLen, ProcessingLen}]
    /\ pc = "hmac"
    /\ status = "Success"
    /\ cc = ContextInit
    /\ qloc = [loc |-> QueryLocInit, n |-> 0]
    /\ hs \in [acc : {<<>>}, log : {<<>>}, failAt : 0 .. MaxHmacCalls]
    /\ hmacCtx \in {HmacContextInit, HmacContextUsed}
    /\ sk = [off |-> 0, len |-> 0]
    /\ out = [mac |-> <<>>, rc |-> 0]
    /\ tr = TraceInit
    /\ ub = FALSE
    /\ enc = EncIdle

\* One call of completeHmac: out is its return value and what it stored at
\* pOutput
CompleteHmac ==
    /\ pc = "hmac"
    /\ \E r \in {completeHmac(hmacCtx, hs, p.key, p.data, p.outputLen)} :
          /\ hmacCtx' = r.hm
          /\ hs' = r.h
          /\ out' = [mac |-> r.mac, rc |-> r.rc]
    /\ pc' = "done"
    /\ UNCHANGED <<build, p, status, cc, qloc, sk, tr, ub, enc>>

SpecHmac == InitHmac /\ [][CompleteHmac]_vars

\* The most chunks a key is supplied in
MaxChunks == 3

\* The chunks of key cut at the offsets cuts (in order, each at most the one
\* after it)
ChunksAt(key, cuts) ==
    [j \in 1 .. Len(cuts) + 1 |->
        Slice(key, (IF j = 1 THEN 0 ELSE cuts[j - 1]) + 1,
              (IF j > Len(cuts) THEN Len(key) ELSE cuts[j])
                - (IF j = 1 THEN 0 ELSE cuts[j - 1]))]

\* Every way of supplying key in n chunks, empty chunks included
Splits(key, n) ==
    {ChunksAt(key, cuts) :
        cuts \in {c \in [1 .. n - 1 -> 0 .. Len(key)] :
                    \A j \in 1 .. n - 2 : c[j] <= c[j + 1]}}

\* Keys of every length up to MaxKeyOver bytes more than a block
ChunkedKeys ==
    {[i \in 1 .. n |-> ((i * 37) + 101) % 256] :
        n \in 0 .. BlockLen + MaxKeyOver}

InitChunks ==
    /\ build \in {b \in Builds : ~b.memcpyBackward /\ ~b.charSigned}
    /\ p \in UNION {{[key |-> k, chunks |-> c, data |-> d] :
                        d \in HmacDatas,
                        c \in UNION {Splits(k, n) : n \in 1 .. MaxChunks}} :
                     k \in ChunkedKeys}
    /\ pc = "key"
    /\ status = "Success"
    /\ cc = ContextInit
    /\ qloc = [loc |-> QueryLocInit, n |-> 0]
    /\ hs = [acc |-> <<>>, log |-> <<>>, failAt |-> 0]
    /\ hmacCtx \in {HmacContextInit, HmacContextUsed}
    /\ sk = [off |-> 0, len |-> 0]
    /\ out = [mac |-> <<>>, rc |-> 0]
    /\ tr = TraceInit
    /\ ub = FALSE
    /\ enc = EncIdle

\* hmacKey on the next chunk of the key
HmacKeyChunk ==
    /\ pc = "key"
    /\ \E r \in {hmacKey(hmacCtx, hs, p.chunks[Len(tr.steps) + 1])} :
          /\ hmacCtx' = r.hm
          /\ hs' = r.h
          /\ out' = [out EXCEPT !.rc = r.rc]
    /\ tr' = Ran("hmacKey")
    /\ pc' = IF Len(tr.steps) + 1 = Len(p.chunks) THEN "data" ELSE "key"
    /\ UNCHANGED <<build, p, status, cc, qloc, sk, ub, enc>>

\* hmacData on the data
HmacDataStep ==
    /\ pc = "data"
    /\ \E r \in {hmacData(hmacCtx, hs, p.data)} :
          /\ hmacCtx' = r.hm
          /\ hs' = r.h
          /\ out' = [out EXCEPT !.rc = r.rc]
    /\ tr' = Ran("hmacData")
    /\ pc' = "final"
    /\ UNCHANGED <<build, p, status, cc, qloc, sk, ub, enc>>

\* hmacFinal
HmacFinalStep ==
    /\ pc = "final"
    /\ \E r \in {hmacFinal(hmacCtx, hs)} :
          /\ hmacCtx' = r.hm
          /\ hs' = r.h
          /\ out' = [mac |-> r.mac, rc |-> r.rc]
    /\ tr' = Ran("hmacFinal")
    /\ pc' = "done"
    /\ UNCHANGED <<build, p, status, cc, qloc, sk, ub, enc>>

NextChunks == HmacKeyChunk \/ HmacDataStep \/ HmacFinalStep

SpecChunks == InitChunks /\ [][NextChunks]_vars

---------------------------------------------------------------------------
(* The date engine: SigV4_AwsIotDateToIso8601 *)

SIGV4_EXPECTED_LEN_RFC_3339 == 20
SIGV4_EXPECTED_LEN_RFC_5322 == 29
MONTH_ASCII_LEN == 3
ISO_YEAR_LEN == 4
ISO_NON_YEAR_LEN == 2
YEAR_MIN == 1900

\* "%4Y-%2M-%2DT%2h:%2m:%2sZ"
FORMAT_RFC_3339 ==
    <<37, 52, 89, 45, 37, 50, 77, 45, 37, 50, 68, 84, 37, 50, 104, 58, 37,
      50, 109, 58, 37, 50, 115, 90>>

\* "%3*, %2D %3M %4Y %2h:%2m:%2s GMT"
FORMAT_RFC_5322 ==
    <<37, 51, 42, 44, 32, 37, 50, 68, 32, 37, 51, 77, 32, 37, 52, 89, 32,
      37, 50, 104, 58, 37, 50, 109, 58, 37, 50, 115, 32, 71, 77, 84>>

\* "Jan", "Feb", ..., "Dec"
MONTH_NAMES ==
    <<<<74, 97, 110>>, <<70, 101, 98>>, <<77, 97, 114>>, <<65, 112, 114>>,
      <<77, 97, 121>>, <<74, 117, 110>>, <<74, 117, 108>>, <<65, 117, 103>>,
      <<83, 101, 112>>, <<79, 99, 116>>, <<78, 111, 118>>, <<68, 101, 99>>>>

MONTH_DAYS == <<31, 28, 31, 30, 31, 30, 31, 31, 30, 31, 30, 31>>

\* SigV4DateTime_t date = { 0 }
DateTimeInit ==
    [tm_year |-> 0, tm_mon |-> 0, tm_mday |-> 0, tm_hour |-> 0, tm_min |-> 0,
     tm_sec |-> 0]

\* intToAscii storing the least significant digit first
intToAsciiLeastFirst(value, bufferLen) ==
    The({[i \in 1 .. bufferLen |-> ((v \div (10 ^ (i - 1))) % 10) + 48] :
            v \in {value}})

\* intToAscii( value, &pBuffer, bufferLen ): the bufferLen bytes it stores
intToAscii(value, bufferLen) ==
    The({[i \in 1 .. bufferLen |->
            ((v \div (10 ^ (bufferLen - i))) % 10) + 48] : v \in {value}})

\* checkLeap taking every fourth year for a leap year
checkLeapEveryFourth(d) ==
    IF d.tm_mon = 2 /\ d.tm_mday = 29 /\ (d.tm_year % 4) = 0
    THEN "Success"
    ELSE "ISOFormattingError"

\* checkLeap( pDateElements )
checkLeap(d) ==
    IF d.tm_mon = 2 /\ d.tm_mday = 29
    THEN IF (d.tm_year % 400) # 0
            /\ ((d.tm_year % 4) # 0 \/ (d.tm_year % 100) = 0)
         THEN "ISOFormattingError"
         ELSE "Success"
    ELSE "ISOFormattingError"

\* validateDateTime( pDateElements )
validateDateTime(d) ==
    Bind(IF d.tm_year < YEAR_MIN THEN "ISOFormattingError" ELSE "Success",
         LAMBDA s1 :
    Bind(IF d.tm_mon < 1 \/ d.tm_mon > 12 THEN "ISOFormattingError" ELSE s1,
         LAMBDA s2 :
    Bind(IF s2 # "ISOFormattingError"
            /\ (d.tm_mday < 1 \/ d.tm_mday > MONTH_DAYS[d.tm_mon])
         THEN checkLeap(d) ELSE s2, LAMBDA s3 :
    Bind(IF d.tm_hour > 23 THEN "ISOFormattingError" ELSE s3, LAMBDA s4 :
    Bind(IF d.tm_min > 59 THEN "ISOFormattingError" ELSE s4, LAMBDA s5 :
        IF d.tm_sec > 60 THEN "ISOFormattingError" ELSE s5)))))

\* addToDate( formatChar, result, pDateElements )
addToDate(formatChar, result, d) ==
    CASE formatChar = 89 -> [d EXCEPT !.tm_year = result]
      [] formatChar = 77 -> [d EXCEPT !.tm_mon = result]
      [] formatChar = 68 -> [d EXCEPT !.tm_mday = result]
      [] formatChar = 104 -> [d EXCEPT !.tm_hour = result]
      [] formatChar = 109 -> [d EXCEPT !.tm_min = result]
      [] formatChar = 115 -> [d EXCEPT !.tm_sec = result]
      [] OTHER -> d

RECURSIVE MonthScan(_, _)
\* The loop of scanValue over pMonthNames, result being what the test
\* 'result++ < 12' reads: result after the loop, and whether a name matched
MonthScan(pLoc, result) ==
    IF result >= 12 THEN [result |-> result + 1, found |-> FALSE]
    ELSE IF strncmp(MONTH_NAMES[result + 1], pLoc, MONTH_ASCII_LEN) = 0
    THEN [result |-> result + 1, found |-> TRUE]
    ELSE MonthScan(pLoc, result + 1)

RECURSIVE DigitScan(_, _, _, _)
\* The loop of scanValue over decimal digits from index loc (0-based) of
\* pDate
DigitScan(pDate, loc, remainingLenToRead, result) ==
    IF remainingLenToRead > 0 /\ pDate[loc + 1] >= 48 /\ pDate[loc + 1] <= 57
    THEN DigitScan(pDate, loc + 1, remainingLenToRead - 1,
                   (result * 10) + (pDate[loc + 1] - 48))
    ELSE [result |-> result, remainingLenToRead |-> remainingLenToRead]

\* scanValue( pDate, formatChar, readLoc, lenToRead, pDateElements )
scanValue(pDate, formatChar, readLoc, lenToRead, d) ==
    Bind(IF formatChar = 77 /\ lenToRead = MONTH_ASCII_LEN
         THEN Bind(MonthScan(Slice(pDate, readLoc + 1, MONTH_ASCII_LEN), 0),
                   LAMBDA m :
                     [status |-> IF m.found THEN "Success"
                                 ELSE "ISOFormattingError",
                      result |-> m.result, remainingLenToRead |-> 0])
         ELSE [status |-> "InvalidParameter", result |-> 0,
               remainingLenToRead |-> IF formatChar = 42 THEN 0
                                      ELSE lenToRead],
         LAMBDA a :
    Bind(DigitScan(pDate, readLoc, a.remainingLenToRead, a.result),
         LAMBDA b :
    Bind(IF b.remainingLenToRead # 0 THEN "ISOFormattingError" ELSE a.status,
         LAMBDA returnStatus :
        [status |-> returnStatus,
         d |-> IF returnStatus # "ISOFormattingError"
               THEN addToDate(formatChar, b.result, d) ELSE d])))

RECURSIVE ParseLoop(_, _, _, _)
\* The loop of parseDate from formatIndex (0-based) on;
\* s: [status, readLoc, d]
ParseLoop(pDate, pFormat, formatIndex, s) ==
    IF ~(formatIndex < Len(pFormat) /\ s.status # "ISOFormattingError")
    THEN s
    ELSE IF pFormat[formatIndex + 1] = 37
    THEN Bind(pFormat[formatIndex + 2] - 48, LAMBDA lenToRead :
         Bind(scanValue(pDate, pFormat[formatIndex + 3], s.readLoc,
                        lenToRead, s.d), LAMBDA v :
            ParseLoop(pDate, pFormat, formatIndex + 3,
                      [status |-> v.status, readLoc |-> s.readLoc + lenToRead,
                       d |-> v.d])))
    ELSE IF pDate[s.readLoc + 1] # pFormat[formatIndex + 1]
    THEN ParseLoop(pDate, pFormat, formatIndex + 1,
                   [s EXCEPT !.status = "ISOFormattingError"])
    ELSE ParseLoop(pDate, pFormat, formatIndex + 1,
                   [s EXCEPT !.readLoc = @ + 1])

\* parseDate( pDate, dateLen, pFormat, formatLen, pDateElements )
parseDate(pDate, pFormat, d) ==
    Bind(ParseLoop(pDate, pFormat, 0,
                   [status |-> "InvalidParameter", readLoc |-> 0, d |-> d]),
         LAMBDA s :
            [status |-> IF s.status # "ISOFormattingError" THEN "Success"
                        ELSE "ISOFormattingError",
             d |-> s.d])

\* The 16 bytes the call stores at pDateISO8601 for the date d
IsoString(d) ==
    intToAscii(d.tm_year, ISO_YEAR_LEN)
        \o intToAscii(d.tm_mon, ISO_NON_YEAR_LEN)
        \o intToAscii(d.tm_mday, ISO_NON_YEAR_LEN) \o <<84>>
        \o intToAscii(d.tm_hour, ISO_NON_YEAR_LEN)
        \o intToAscii(d.tm_min, ISO_NON_YEAR_LEN)
        \o intToAscii(d.tm_sec, ISO_NON_YEAR_LEN) \o <<90>>

\* SigV4_AwsIotDateToIso8601 storing the parsed date before validating it
SigV4_AwsIotDateToIso8601Early(pDate, missing, pDateISO8601, dateISO8601Len) ==
    IF "pDate" \in missing \/ "pDateISO8601" \in missing
       \/ (Len(pDate) # SIGV4_EXPECTED_LEN_RFC_3339
           /\ Len(pDate) # SIGV4_EXPECTED_LEN_RFC_5322)
       \/ dateISO8601Len < SIGV4_ISO_STRING_LEN
    THEN [status |-> "InvalidParameter", buf |-> pDateISO8601,
          parsed |-> FALSE]
    ELSE Bind(parseDate(pDate,
                        IF Len(pDate) = SIGV4_EXPECTED_LEN_RFC_3339
                        THEN FORMAT_RFC_3339 ELSE FORMAT_RFC_5322,
                        DateTimeInit), LAMBDA r :
            [status |-> IF r.status = "Success" THEN validateDateTime(r.d)
                        ELSE r.status,
             buf |-> IF r.status = "Success"
                     THEN Poke(pDateISO8601, 0, IsoString(r.d))
                     ELSE pDateISO8601,
             parsed |-> TRUE])

\* SigV4_AwsIotDateToIso8601( pDate, dateLen, pDateISO8601, dateISO8601Len ):
\* the status, the output buffer after the call, whether parseDate was
\* called. missing holds the names of the pointers that are NULL.
SigV4_AwsIotDateToIso8601(pDate, missing, pDateISO8601, dateISO8601Len) ==
    IF "pDate" \in missing \/ "pDateISO8601" \in missing
       \/ (Len(pDate) # SIGV4_EXPECTED_LEN_RFC_3339
           /\ Len(pDate) # SIGV4_EXPECTED_LEN_RFC_5322)
       \/ dateISO8601Len < SIGV4_ISO_STRING_LEN
    THEN [status |-> "InvalidParameter", buf |-> pDateISO8601,
          parsed |-> FALSE]
    ELSE Bind(parseDate(pDate,
                        IF Len(pDate) = SIGV4_EXPECTED_LEN_RFC_3339
                        THEN FORMAT_RFC_3339 ELSE FORMAT_RFC_5322,
                        DateTimeInit), LAMBDA r :
         Bind(IF r.status = "Success" THEN validateDateTime(r.d)
              ELSE r.status, LAMBDA returnStatus :
            [status |-> returnStatus,
             buf |-> IF returnStatus = "Success"
                     THEN Poke(pDateISO8601, 0, IsoString(r.d))
                     ELSE pDateISO8601,
             parsed |-> TRUE]))

\* The w decimal digits of n
Dec(n, w) == [i \in 1 .. w |-> ((n \div (10 ^ (w - i))) % 10) + 48]

\* hh:mm:ss
Clock(f) ==
    Dec(f.hour, 2) \o <<58>> \o Dec(f.min, 2) \o <<58>> \o Dec(f.sec, 2)

\* The date f as 'YYYY-MM-DDTHH:MM:SSZ'
Rfc3339(f) ==
    Dec(f.year, 4) \o <<45>> \o Dec(f.mon, 2) \o <<45>> \o Dec(f.mday, 2)
        \o <<84>> \o Clock(f) \o <<90>>

\* The date f as 'Sun, DD Mon YYYY HH:MM:SS GMT'
Rfc5322(f) ==
    <<83, 117, 110, 44, 32>> \o Dec(f.mday, 2) \o <<32>>
        \o MONTH_NAMES[f.mon] \o <<32>> \o Dec(f.year, 4) \o <<32>>
        \o Clock(f) \o <<32, 71, 77, 84>>

DateYears == {1899, 1900, 2000, 2019, 2020, 2100}
DateMonths == {0, 1, 2, 4, 12, 13}
DateDays == {0, 1, 28, 29, 30, 31, 32}
DateClocks ==
    {<<0, 0, 0>>, <<12, 36, 0>>, <<23, 59, 60>>, <<24, 0, 0>>, <<0, 60, 0>>,
     <<0, 0, 61>>}

\* Dates, valid and not, as the fields they are written from
DateFields ==
    {[year |-> y, mon |-> mo, mday |-> dd, hour |-> c[1], min |-> c[2],
      sec |-> c[3]] :
        y \in DateYears, mo \in DateMonths, dd \in DateDays,
        c \in DateClocks}

\* 30 August 2015, 12:36:00
BaseFields ==
    [year |-> 2015, mon |-> 8, mday |-> 30, hour |-> 12, min |-> 36,
     sec |-> 0]

\* 'x', and the characters next to '0' and '9'
BadChars == {120, 47, 58}

\* The byte the output buffer is filled with before the call
OutFill == 170

\* An input of the date call: the date string, the fields it was written
\* from, whether it has the shape of its format, the size of the output
\* buffer and the pointers that are NULL
DateInput(date, f, shaped, cap, missing) ==
    [date |-> date, fields |-> f, shaped |-> shaped, cap |-> cap,
     missing |-> missing]

\* date with the byte at index i replaced by c; in the RFC 5322 form the
\* first three bytes, the day name, are skipped by the format
Corrupted(date, i, c) ==
    Bind([date EXCEPT ![i] = c], LAMBDA bad :
        DateInput(bad, BaseFields,
                  bad = date
                    \/ (Len(date) = SIGV4_EXPECTED_LEN_RFC_5322 /\ i <= 3),
                  SIGV4_ISO_STRING_LEN, {}))

DateInputs ==
    {DateInput(Rfc3339(f), f, TRUE, SIGV4_ISO_STRING_LEN, {}) :
        f \in DateFields}
    \cup {DateInput(Rfc5322(f), f, TRUE, SIGV4_ISO_STRING_LEN, {}) :
            f \in {g \in DateFields : g.mon \in 1 .. 12}}
    \cup {Corrupted(d, i, c) :
            d \in {Rfc3339(BaseFields)},
            i \in 1 .. SIGV4_EXPECTED_LEN_RFC_3339, c \in BadChars}
    \cup {Corrupted(d, i, c) :
            d \in {Rfc5322(BaseFields)},
            i \in 1 .. SIGV4_EXPECTED_LEN_RFC_5322, c \in BadChars \cup {97}}
    \cup {DateInput(d, BaseFields, TRUE, cap, m) :
            d \in {Rfc3339(BaseFields), Rfc5322(BaseFields),
                   Rfc3339(BaseFields) \o <<90>>,
                   Slice(Rfc3339(BaseFields), 1, 19),
                   Slice(Rfc5322(BaseFields), 1, 28), <<>>},
            cap \in {0, SIGV4_ISO_STRING_LEN - 1, SIGV4_ISO_STRING_LEN,
                     SIGV4_ISO_STRING_LEN + 1},
            m \in SUBSET {"pDate", "pDateISO8601"}}
    \cup {DateInput(d, [BaseFields EXCEPT !.mon = 13], TRUE, cap, {}) :
            d \in {Rfc3339([BaseFields EXCEPT !.mon = 13])},
            cap \in {SIGV4_ISO_STRING_LEN - 1, SIGV4_ISO_STRING_LEN + 1}}

InitDate ==
    /\ build \in {b \in Builds : ~b.memcpyBackward /\ ~b.charSigned}
    /\ p \in DateInputs
    /\ pc = "date"
    /\ status = "Success"
    /\ cc = ContextInit
    /\ qloc = [loc |-> QueryLocInit, n |-> 0]
    /\ hs = [acc |-> <<>>, log |-> <<>>, failAt |-> 0]
    /\ hmacCtx = HmacContextInit
    /\ sk = [off |-> 0, len |-> 0]
    /\ out = [buf |-> [i \in 1 .. p.cap |-> OutFill]]
    /\ tr = TraceInit
    /\ ub = FALSE
    /\ enc = EncIdle

\* One call of SigV4_AwsIotDateToIso8601
DateToIso8601 ==
    /\ pc = "date"
    /\ \E r \in {SigV4_AwsIotDateToIso8601(p.date, p.missing, out.buf,
                                           p.cap)} :
          /\ status' = r.status
          /\ out' = [buf |-> r.buf]
          /\ tr' = IF r.parsed THEN Ran("parseDate") ELSE tr
    /\ pc' = "done"
    /\ UNCHANGED <<build, p, cc, qloc, hs, hmacCtx, sk, ub, enc>>

SpecDate == InitDate /\ [][DateToIso8601]_vars

---------------------------------------------------------------------------
(* The record comparators *)

\* The longest key and value of the records compared
MaxFieldLen == 2

\* A zero byte, 'a', and a byte above 0x7F
FieldBytes == {0, 97, 233}

\* Records with a key that is not empty
CompareRecords ==
    {Pair(k, v) :
        k \in SeqsUpTo(FieldBytes, MaxFieldLen) \ {<<>>},
        v \in SeqsUpTo({0, 97}, MaxFieldLen)}

InitCompare ==
    /\ build \in {b \in Builds : ~b.memcpyBackward /\ ~b.charSigned}
    /\ p \in [first : CompareRecords, second : CompareRecords]
    /\ pc = "compare"
    /\ status = "Success"
    /\ cc = ContextInit
    /\ qloc = [loc |-> QueryLocInit, n |-> 0]
    /\ hs = [acc |-> <<>>, log |-> <<>>, failAt |-> 0]
    /\ hmacCtx = HmacContextInit
    /\ sk = [off |-> 0, len |-> 0]
    /\ out = [query |-> 0, queryBack |-> 0, key |-> 0, keyBack |-> 0]
    /\ tr = TraceInit
    /\ ub = FALSE
    /\ enc = EncIdle

\* Each comparator called on the two records, in both orders
Compare ==
    /\ pc = "compare"
    /\ \E q \in {cmpQueryFieldValue(p.first, p.second)} :
       \E qb \in {cmpQueryFieldValue(p.second, p.first)} :
       \E k \in {cmpKeyValue(p.first, p.second)} :
       \E kb \in {cmpKeyValue(p.second, p.first)} :
          out' = [query |-> q, queryBack |-> qb, key |-> k, keyBack |-> kb]
    /\ pc' = "done"
    /\ UNCHANGED <<build, p, status, cc, qloc, hs, hmacCtx, sk, tr, ub, enc>>

SpecCompare == InitCompare /\ [][Compare]_vars

---------------------------------------------------------------------------

(* Quicksort *)

\* The most items an array to sort holds
MaxItems == 4

\* The keys of the items; items of one key tie
ItemKeys == 0 .. 2

\* A comparator that is a total preorder: it orders the items by their key
\* and does not look at the rest of the item
comparator(first, second) == first.key - second.key

\* swap( pFirstItem, pSecondItem, itemSize ) on the items at the 0-based
\* indices i and j of a
swap(a, i, j) == [a EXCEPT ![i + 1] = a[j + 1], ![j + 1] = a[i + 1]]

RECURSIVE PartitionLoop(_, _, _, _, _)
\* The loop of partition from j on, with n the number of items of the
\* array: the bound high - 1 is computed in size_t, and an item at an index
\* >= n is outside the array
PartitionLoop(a, i, j, high, n) ==
    IF j > SizeSub(high, 1) THEN [a |-> a, i |-> i, ub |-> FALSE]
    ELSE IF j >= n THEN [a |-> a, i |-> i, ub |-> TRUE]
    ELSE IF comparator(a[j + 1], a[high + 1]) < 0
    THEN Bind((i + 1) % SizeMod, LAMBDA i1 :
            PartitionLoop(swap(a, i1, j), i1, j + 1, high, n))
    ELSE PartitionLoop(a, i, j + 1, high, n)

\* partition( pArray, low, high, itemSize, comparator )
partition(a, low, high, n) ==
    Bind(PartitionLoop(a, SizeSub(low, 1), low, high, n), LAMBDA r :
        IF r.ub THEN [a |-> r.a, index |-> 0, ub |-> TRUE]
        ELSE Bind((r.i + 1) % SizeMod, LAMBDA pivotIndex :
                [a |-> swap(r.a, pivotIndex, high), index |-> pivotIndex,
                 ub |-> FALSE]))

RECURSIVE HelperLoop(_, _, _, _)
\* The loop of quickSortHelper: stack holds the entries below top, len is
\* the number of entries the array stack[ high - low + 1 ] has
HelperLoop(a, stack, len, n) ==
    IF stack = <<>> THEN [a |-> a, ub |-> FALSE]
    ELSE Bind(stack[Len(stack)], LAMBDA high :
         Bind(stack[Len(stack) - 1], LAMBDA low :
         Bind(partition(a, low, high, n), LAMBDA r :
            IF r.ub THEN [a |-> r.a, ub |-> TRUE]
            ELSE Bind(SubSeq(stack, 1, Len(stack) - 2)
                        \o (IF r.index # 0 /\ r.index - 1 > low
                            THEN <<low, r.index - 1>> ELSE <<>>)
                        \o (IF r.index + 1 < high
                            THEN <<r.index + 1, high>> ELSE <<>>),
                      LAMBDA s :
                        IF Len(s) > len THEN [a |-> r.a, ub |-> TRUE]
                        ELSE HelperLoop(r.a, s, len, n)))))

\* quickSortHelper( pArray, low, high, itemSize, comparator ): low and high
\* are stored in stack[ 0 ] and stack[ 1 ] whatever the length of stack
quickSortHelper(a, low, high, n) ==
    IF high - low + 1 < 2 THEN [a |-> a, ub |-> TRUE]
    ELSE HelperLoop(a, <<low, high>>, high - low + 1, n)

\* quickSort( pArray, numItems, itemSize, comparator ); null: pArray is NULL
quickSort(a, numItems, null) ==
    IF numItems # 0 /\ ~null
    THEN quickSortHelper(a, 0, SizeSub(numItems, 1), Len(a))
    ELSE [a |-> a, ub |-> FALSE]

\* Arrays of up to MaxItems items, each with a key and the index it starts at
SortInputs ==
    {[array |-> [i \in 1 .. n |-> [key |-> k[i], at |-> i]], null |-> nl] :
        n \in 0 .. MaxItems, k \in [1 .. MaxItems -> ItemKeys],
        nl \in BOOLEAN}

\* The arrays that hold the items of a in some order
Rearranged(a) ==
    {[i \in 1 .. Len(a) |-> a[f[i]]] : f \in Perms(Len(a))}

InitSort ==
    /\ build \in {b \in Builds : ~b.memcpyBackward /\ ~b.charSigned}
    /\ p \in SortInputs
    /\ pc = "sort"
    /\ status = "Success"
    /\ cc = ContextInit
    /\ qloc = [loc |-> QueryLocInit, n |-> 0]
    /\ hs = [acc |-> <<>>, log |-> <<>>, failAt |-> 0]
    /\ hmacCtx = HmacContextInit
    /\ sk = [off |-> 0, len |-> 0]
    /\ out = [array |-> p.array]
    /\ tr = TraceInit
    /\ ub = FALSE
    /\ enc = EncIdle

\* One call of quickSort on out.array; once it has stored or read outside
\* what it owns the array may hold its items in any order and the call may
\* not return
QuickSort ==
    /\ pc = "sort"
    /\ \E r \in {quickSort(out.array, Len(out.array), p.null)} :
          IF r.ub
          THEN /\ out' \in {[array |-> b] : b \in Rearranged(p.array)}
               /\ pc' \in {"done", "trap"}
               /\ ub' = TRUE
          ELSE /\ out' = [array |-> r.a]
               /\ pc' = "done"
               /\ ub' = FALSE
    /\ UNCHANGED <<build, p, status, cc, qloc, hs, hmacCtx, sk, tr, enc>>

SpecSort == InitSort /\ [][QuickSort]_vars

---------------------------------------------------------------------------

(* Two signing calls at once *)

\* Everything one signing call owns: its locals, the hash context of its
\* crypto interface and the caller's output
CallInit(pr) ==
    [pc |-> "method", status |-> "Success", cc |-> ContextInit,
     qloc |-> [loc |-> QueryLocInit, n |-> 0],
     hs |-> [acc |-> <<>>, log |-> <<>>, failAt |-> pr.failAt],
     hmacCtx |-> HmacContextInit, sk |-> [off |-> 0, len |-> 0],
     out |-> OutInit, tr |-> TraceInit, ub |-> FALSE]

\* The call s after a step that ended with status st: on to the step next,
\* or out
CallStepEnd(s, st, undefined, next) ==
    IF undefined
    THEN {[s EXCEPT !.pc = "done", !.status = o, !.ub = TRUE] :
            o \in UndefinedOutcomes}
    ELSE IF st # "Success" THEN {[s EXCEPT !.pc = "done", !.status = st]}
    ELSE {[s EXCEPT !.pc = next, !.status = "Success"]}

CallRan(s, step) == [s EXCEPT !.tr.steps = Append(@, step)]

\* Lines 1854-1864
CallMethod(s, pr) ==
    IF pr.missing \cap {"pParams", "pHttpParameters", "pHttpMethod"} # {}
    THEN CallStepEnd(s, "Success", TRUE, "path")
    ELSE Bind(writeLineToCanonicalRequest(ContextInit, pr.method), LAMBDA r :
            CallStepEnd([CallRan(s, "method") EXCEPT !.cc = r.c], r.status,
                        FALSE, "path"))

\* Lines 1866-1899
CallPath(s, pr, b) ==
    Bind(IF Len(pr.path) = 0 THEN HTTP_EMPTY_PATH ELSE pr.path,
         LAMBDA pPath :
    Bind(IF "PATH_IS_CANONICAL" \in pr.flags
         THEN Bind(writeLineToCanonicalRequest(s.cc, pPath), LAMBDA w :
                 [c |-> w.c, status |-> w.status, ub |-> FALSE])
         ELSE IF Len(pr.service) >= Len(S3_SERVICE_NAME)
                 /\ strncmp(pr.service, S3_SERVICE_NAME,
                            Len(S3_SERVICE_NAME)) = 0
         THEN generateCanonicalURI(s.cc, pPath, FALSE, b)
         ELSE generateCanonicalURI(s.cc, pPath, TRUE, b), LAMBDA r :
        CallStepEnd([CallRan(s, "path") EXCEPT !.cc = r.c], r.status, r.ub,
                    "query")))

\* Lines 1901-1915 up to the qsort call of generateCanonicalQuery
CallQuery(s, pr) ==
    IF "QUERY_IS_CANONICAL" \in pr.flags
    THEN Bind(writeLineToCanonicalRequest(s.cc, pr.query), LAMBDA r :
            CallStepEnd([CallRan(s, "query") EXCEPT !.cc = r.c], r.status,
                        FALSE, "headers"))
    ELSE Bind(setQueryStringFieldsAndValues(pr.query), LAMBDA q :
            CallStepEnd([CallRan(s, "query") EXCEPT
                            !.qloc = [loc |-> q.loc, n |-> q.n],
                            !.tr.queryAt = s.cc.cur],
                        IF q.n > MaxQueryPairs
                        THEN "MaxQueryPairCountExceeded" ELSE "Success",
                        q.oob, "qsort"))

\* generateCanonicalQuery: the qsort call
CallSort(s) ==
    {[s EXCEPT !.qloc.loc = sorted, !.pc = "qwrite"] :
        sorted \in qsort(s.qloc.loc, s.qloc.n)}

\* generateCanonicalQuery from writeCanonicalQueryParameters to its end
CallWriteQuery(s, b) ==
    Bind(WriteQueryAndLinefeed(s.cc, s.qloc.loc, s.qloc.n, b.charSigned),
         LAMBDA r :
            CallStepEnd([s EXCEPT !.cc = r.c], r.status, r.ub, "headers"))

\* Lines 1917-1933
CallHeaders(s, pr) ==
    Bind(IF "HEADERS_ARE_CANONICAL" \in pr.flags
         THEN writeLineToCanonicalRequest(s.cc, pr.headers)
         ELSE [c |-> s.cc, status |-> "Success"], LAMBDA r :
        CallStepEnd([CallRan(s, "headers") EXCEPT !.cc = r.c], r.status,
                    FALSE, "payload"))

\* Lines 1935-1950
CallPayload(s, pr) ==
    Bind(completeHashAndHexEncode(s.hs, pr.payload, s.cc.rem), LAMBDA e :
        CallStepEnd([CallRan(s, "payload") EXCEPT
                        !.hs = e.h,
                        !.cc = IF e.status = "Success"
                                  /\ InBounds(s.cc.cur, Len(e.hex))
                               THEN [buf |-> Poke(s.cc.buf, s.cc.cur, e.hex),
                                     cur |-> s.cc.cur + Len(e.hex),
                                     rem |-> s.cc.rem - Len(e.hex)]
                               ELSE s.cc],
                    e.status, ~InBounds(s.cc.cur, Len(e.hex)), "sts"))

\* Lines 1952-1956
CallStringToSign(s, pr) ==
    Bind(writeStringToSign(pr, s.cc, s.hs), LAMBDA r :
        CallStepEnd([CallRan(s, "sts") EXCEPT
                        !.cc = r.c, !.hs = r.h,
                        !.tr.hashed = Slice(s.cc.buf, 1, s.cc.cur),
                        !.tr.sts = IF r.status = "Success" /\ ~r.ub
                                   THEN Slice(r.c.buf, 1, r.c.cur)
                                   ELSE <<>>],
                    r.status, r.ub, "key"))

\* Lines 1958-1969
CallSigningKey(s, pr) ==
    Bind(generateSigningKey(pr, HmacContextInit, s.hs, s.cc,
                            [off |-> s.cc.cur, len |-> s.cc.rem]), LAMBDA r :
        CallStepEnd([CallRan(s, "key") EXCEPT
                        !.cc = r.c, !.hs = r.h, !.hmacCtx = r.hm,
                        !.sk = r.key,
                        !.tr.key = IF r.status = "Success" /\ ~r.ub
                                   THEN Slice(r.c.buf, r.key.off + 1,
                                              DigestLen)
                                   ELSE <<>>],
                    r.status, r.ub, "hex"))

\* Lines 1971-1991
CallHex(s) ==
    Bind(lowercaseHexEncode(Slice(s.cc.buf, s.sk.off + 1, DigestLen),
                            HexEncodedHmacLen), LAMBDA e :
        {[CallRan(s, "hex") EXCEPT
             !.cc.buf = Poke(@, 0, e.hex), !.tr.hex = e.hex,
             !.pc = "done", !.status = e.status]})

\* What the call s may be after its next step, given the parameters pr and
\* the build b
CallSteps(s, pr, b) ==
    CASE s.pc = "method" -> CallMethod(s, pr)
      [] s.pc = "path" -> CallPath(s, pr, b)
      [] s.pc = "query" -> CallQuery(s, pr)
      [] s.pc = "qsort" -> CallSort(s)
      [] s.pc = "qwrite" -> CallWriteQuery(s, b)
      [] s.pc = "headers" -> CallHeaders(s, pr)
      [] s.pc = "payload" -> CallPayload(s, pr)
      [] s.pc = "sts" -> CallStringToSign(s, pr)
      [] s.pc = "key" -> CallSigningKey(s, pr)
      [] s.pc = "hex" -> CallHex(s)
      [] OTHER -> {}

---------------------------------------------------------------------------
(* The two calls interleaved: every variable holds one value per call *)

Calls == {1, 2}

\* The parameter sets of the two calls
TwoParamChoices ==
    {BaseParams,
     [BaseParams EXCEPT !.query = <<98, 61, 50, 38, 97, 61, 49, 38, 98, 61, 49>>],
     [BaseParams EXCEPT !.flags = AllFlags],
     [BaseParams EXCEPT !.failAt = 5],
     [BaseParams EXCEPT !.method = [i \in 1 .. ProcessingLen |-> 77]],
     [BaseParams EXCEPT !.method = [i \in 1 .. ProcessingLen - 8 |-> 77],
                        !.path = <<32>>],
     [BaseParams EXCEPT !.missing = {"pParams"}]}

\* Call i as one record
CallOf(i) ==
    [pc |-> pc[i], status |-> status[i], cc |-> cc[i], qloc |-> qloc[i],
     hs |-> hs[i], hmacCtx |-> hmacCtx[i], sk |-> sk[i], out |-> out[i],
     tr |-> tr[i], ub |-> ub[i]]

\* A trap ends the process, and with it both calls
Halted == \E i \in Calls : status[i] = "Trap"

InitTwo ==
    /\ build \in Builds
    /\ p \in [Calls -> TwoParamChoices]
    /\ pc = [i \in Calls |-> "method"]
    /\ status = [i \in Calls |-> "Success"]
    /\ cc = [i \in Calls |-> ContextInit]
    /\ qloc = [i \in Calls |-> [loc |-> QueryLocInit, n |-> 0]]
    /\ hs = [i \in Calls |-> [acc |-> <<>>, log |-> <<>>,
                              failAt |-> p[i].failAt]]
    /\ hmacCtx = [i \in Calls |-> HmacContextInit]
    /\ sk = [i \in Calls |-> [off |-> 0, len |-> 0]]
    /\ out = [i \in Calls |-> OutInit]
    /\ tr = [i \in Calls |-> TraceInit]
    /\ ub = [i \in Calls |-> FALSE]
    /\ enc = EncIdle

\* One step of call i: it reads and writes what call i owns, and the build
TwoStep(i) ==
    /\ pc[i] # "done"
    /\ ~Halted
    /\ \E s \in CallSteps(CallOf(i), p[i], build) :
          /\ pc' = [pc EXCEPT ![i] = s.pc]
          /\ status' = [status EXCEPT ![i] = s.status]
          /\ cc' = [cc EXCEPT ![i] = s.cc]
          /\ qloc' = [qloc EXCEPT ![i] = s.qloc]
          /\ hs' = [hs EXCEPT ![i] = s.hs]
          /\ hmacCtx' = [hmacCtx EXCEPT ![i] = s.hmacCtx]
          /\ sk' = [sk EXCEPT ![i] = s.sk]
          /\ out' = [out EXCEPT ![i] = s.out]
          /\ tr' = [tr EXCEPT ![i] = s.tr]
          /\ ub' = [ub EXCEPT ![i] = s.ub]
    /\ UNCHANGED <<build, p, enc>>

FirstCallSteps == TwoStep(1)

SecondCallSteps == TwoStep(2)

NextTwo == FirstCallSteps \/ SecondCallSteps

SpecTwo == InitTwo /\ [][NextTwo]_vars

RECURSIVE CallResults(_, _, _)
\* What the calls of S may be when they have returned, run alone
CallResults(S, pr, b) ==
    IF \A s \in S : s.pc = "done" THEN S
    ELSE CallResults({s \in S : s.pc = "done"}
                        \cup UNION {CallSteps(s, pr, b) :
                                      s \in {t \in S : t.pc # "done"}},
                     pr, b)

---------------------------------------------------------------------------

(* What the specification says of the signing call *)

IsPrefix(a, s) == Len(a) <= Len(s) /\ \A i \in 1 .. Len(a) : s[i] = a[i]

IsSuffix(a, s) ==
    Len(a) <= Len(s) /\ \A i \in 1 .. Len(a) : s[Len(s) - Len(a) + i] = a[i]

IsLowerHexDigit(c) == c \in 48 .. 57 \/ c \in 97 .. 102

\* "AWS4-HMAC-SHA256 Credential="
HeaderCredential ==
    <<65, 87, 83, 52, 45, 72, 77, 65, 67, 45, 83, 72, 65, 50, 53, 54, 32,
    67, 114, 101, 100, 101, 110, 116, 105, 97, 108, 61>>

\* ", SignedHeaders="
HeaderSignedHeaders ==
    <<44, 32, 83, 105, 103, 110, 101, 100, 72, 101, 97, 100, 101, 114, 115,
    61>>

\* ", Signature="
HeaderSignature == <<44, 32, 83, 105, 103, 110, 97, 116, 117, 114, 101, 61>>

\* The credential scope without its linefeed: date/region/service/aws4_request
ScopeOf(pr) ==
    Slice(pr.date, 1, ISO_DATE_SCOPE_LEN) \o <<CREDENTIAL_SCOPE_SEPARATOR>>
        \o pr.region \o <<CREDENTIAL_SCOPE_SEPARATOR>> \o pr.service
        \o <<CREDENTIAL_SCOPE_SEPARATOR>> \o CREDENTIAL_SCOPE_TERMINATOR

\* Whether the n bytes h are an Authorization header value for pr whose
\* signature, 2 * digest_len hex digits, starts at offset sig
IsAuthorizationHeader(h, pr, sig) ==
    /\ IsPrefix(HeaderCredential \o pr.accessKeyId
                    \o <<CREDENTIAL_SCOPE_SEPARATOR>> \o ScopeOf(pr)
                    \o HeaderSignedHeaders, h)
    /\ sig = Len(h) - (2 * DigestLen)
    /\ sig >= Len(HeaderSignature)
    /\ Slice(h, (sig - Len(HeaderSignature)) + 1, Len(HeaderSignature))
          = HeaderSignature
    /\ \A i \in sig + 1 .. Len(h) : IsLowerHexDigit(h[i])

\* C1: when the signing call returns Success, the caller's output buffer
\* holds the Authorization header value 'AWS4-HMAC-SHA256 Credential=
\* <access_key>/<scope>, SignedHeaders=<list>, Signature=<hex>', the length
\* out-parameter holds its length, and the signature pointer and length
\* designate the hex signature inside the buffer.
C1_AuthorizationHeaderWritten ==
    (pc = "done" /\ status = "Success" /\ ~ub) =>
        /\ out.authBufLen <= AuthBufCap
        /\ out.signatureLen = 2 * DigestLen
        /\ IsAuthorizationHeader(Slice(out.authBuf, 1, out.authBufLen), p,
                                 out.signature)

\* HMAC( key, data ) as the code's completeHmac computes it on a fresh
\* context
HmacOf(key, data) ==
    completeHmac(HmacContextInit, [acc |-> <<>>, log |-> <<>>, failAt |-> 0],
                 key, data, DigestLen).mac

\* C2: the signature of a successful call is the lowercase hex of
\* HMAC(k_signing, string_to_sign): a fifth HMAC keyed by the signing key is
\* computed over the string to sign, and its result, not the signing key,
\* is hex-encoded.
C2_SignatureIsHmacOfStringToSign ==
    (pc = "done" /\ status = "Success" /\ ~ub) =>
        tr.hex = LowerHex(HmacOf(tr.key, tr.sts))

\* The members C3 names as required
C3Required ==
    {"pParams", "pCredentials", "pAccessKeyId", "pSecretAccessKey",
     "pDateIso8601", "pRegion", "pService", "pCryptoInterface",
     "pHashContext", "pHttpParameters", "pHttpMethod", "pQuery", "pHeaders"}

\* C3: parameter verification runs first: with a required member missing
\* the call returns InvalidParameter, runs no canonicalization step, makes
\* no hash call and does not dereference the missing member.
C3_ParametersVerifiedFirst ==
    (pc = "done" /\ p.missing \cap C3Required # {}) =>
        /\ status = "InvalidParameter"
        /\ tr.steps = <<>>
        /\ hs.log = <<>>
        /\ ~ub

\* The number of linefeeds in s
Linefeeds(s) == Cardinality({i \in 1 .. Len(s) : s[i] = LINEFEED_CHAR})

\* The payload field the specification asks for
PayloadField(pr) ==
    IF "PAYLOAD_IS_HASH" \in pr.flags THEN pr.payload
    ELSE LowerHex(Digest(pr.payload))

\* C4: whenever the call reaches the hashing of the canonical request, the
\* bytes hashed are, in order, method, LF, canonical URI, LF, canonical
\* query, LF, canonical headers block, LF, signed-headers list, LF, payload
\* field: the method line opens them, the payload field closes them, and
\* the four components between them are set apart by linefeeds.
C4_CanonicalRequestLayout ==
    ("sts" \in {tr.steps[i] : i \in 1 .. Len(tr.steps)}) =>
        /\ IsPrefix(p.method \o <<LINEFEED_CHAR>>, tr.hashed)
        /\ IsSuffix(<<LINEFEED_CHAR>> \o PayloadField(p), tr.hashed)
        /\ Len(tr.hashed) >= Len(p.method) + Len(PayloadField(p)) + 5
        /\ Linefeeds(tr.hashed)
              >= 5 + Linefeeds(p.method) + Linefeeds(PayloadField(p))

\* C5: with PAYLOAD_IS_HASH set the last field of the canonical request is
\* the payload copied verbatim and no hash operation is run on the payload;
\* with the flag clear it is the lowercase hex of hash(payload).
C5_PayloadField ==
    (pc = "sts") =>
        /\ IsSuffix(PayloadField(p), Slice(cc.buf, 1, cc.cur))
        /\ "PAYLOAD_IS_HASH" \in p.flags => hs.log = <<>>

\* encode with encode_slash = false and double_encode_equals = false, in a
\* destination that is large enough
Encode(s) == encodeURI(s, MaxImageLen * Len(s), FALSE, FALSE,
                       build.charSigned).out

\* C6: with PATH_IS_CANONICAL clear the canonical URI line is encode(path)
\* if and only if the service name is exactly "s3", and
\* encode(encode(path)) for every other service name, those that begin
\* with "s3" included.
C6_EncodeOnceOnlyForS3 ==
    (pc = "query" /\ "PATH_IS_CANONICAL" \notin p.flags) =>
        Slice(cc.buf, Len(p.method) + 2, cc.cur - (Len(p.method) + 1))
            = (IF p.service = S3_SERVICE_NAME
               THEN Encode(IF Len(p.path) = 0 THEN HTTP_EMPTY_PATH ELSE p.path)
               ELSE Encode(Encode(IF Len(p.path) = 0 THEN HTTP_EMPTY_PATH
                                  ELSE p.path)))
              \o <<LINEFEED_CHAR>>

---------------------------------------------------------------------------
(* What the specification says of the encoder and of the query *)

UpperHexDigit(n) == IF n < 10 THEN 48 + n ELSE 65 + (n - 10)

\* The image of byte c: itself if unreserved (or '/' kept), "%253D" for '='
\* where asked, else '%' and the two upper-case hex digits of its nibbles
ClaimedImage(c, encodeSlash, doubleEncodeEquals) ==
    IF doubleEncodeEquals /\ c = 61 THEN DoubleEncodedEquals
    ELSE IF isalnum(c) \/ c \in {45, 95, 46, 126} THEN <<c>>
    ELSE IF c = 47 /\ ~encodeSlash THEN <<c>>
    ELSE <<37, UpperHexDigit(c \div 16), UpperHexDigit(c % 16)>>

RECURSIVE ClaimedEncodingFrom(_, _, _, _)
ClaimedEncodingFrom(s, i, encodeSlash, doubleEncodeEquals) ==
    IF i > Len(s) THEN <<>>
    ELSE ClaimedImage(s[i], encodeSlash, doubleEncodeEquals)
            \o ClaimedEncodingFrom(s, i + 1, encodeSlash, doubleEncodeEquals)

\* The images of all the bytes of s, in order
ClaimedEncoding(s, encodeSlash, doubleEncodeEquals) ==
    Bind(s, LAMBDA t :
        ClaimedEncodingFrom(t, 1, encodeSlash, doubleEncodeEquals))

\* C7: encodeURI, given uriLen bytes and a large enough destination,
\* outputs the in-order concatenation of one image per input byte, for all
\* uriLen bytes and every byte value (0x00 and values >= 0x80 included),
\* and reports the sum of the image lengths.
C7_EncodeEveryByte ==
    (enc.called /\ enc.cap >= MaxImageLen * Len(enc.uri)) =>
        /\ enc.status = "Success"
        /\ enc.out = ClaimedEncoding(enc.uri, enc.encodeSlash,
                                     enc.doubleEncodeEquals)
        /\ enc.len = Len(enc.out)

\* Whether a sorts before b in byte order, a string before any longer
\* string it prefixes
LexLess(a, b) ==
    \E i \in 1 .. Min(Len(a), Len(b)) + 1 :
        /\ \A k \in 1 .. i - 1 : a[k] = b[k]
        /\ \/ i <= Len(a) /\ i <= Len(b) /\ a[i] < b[i]
           \/ i = Len(a) + 1 /\ i <= Len(b)

\* The (key, then value) order of records
ClaimedLeq(r1, r2) ==
    \/ LexLess(r1.key, r2.key)
    \/ r1.key = r2.key /\ (r1.value = r2.value \/ LexLess(r1.value, r2.value))

\* The first n records of pQueryLoc
Records(loc, n) == [i \in 1 .. n |-> loc[i - 1]]

\* "a=1&b=1&b=2\n", the canonical query of 'b=2&a=1&b=1'
SortedExample == <<97, 61, 49, 38, 98, 61, 49, 38, 98, 61, 50, 10>>

\* C8: for a query of at most MAX_QUERY_PAIRS parameters the records that
\* go into the canonical query are a permutation of the split records that
\* is non-decreasing in (key, then value) byte order, a shorter string
\* before any longer string it prefixes; 'b=2&a=1&b=1' gives 'a=1&b=1&b=2'.
C8_QuerySorted ==
    /\ pc = "qwrite" =>
          /\ \E f \in Perms(qloc.n) :
                Records(qloc.loc, qloc.n)
                    = [i \in 1 .. qloc.n |->
                         setQueryStringFieldsAndValues(p.query).loc[f[i] - 1]]
          /\ \A i, j \in 0 .. qloc.n - 1 :
                i < j => ClaimedLeq(qloc.loc[i], qloc.loc[j])
    /\ (pc = "headers" /\ p.query = <<98, 61, 50, 38, 97, 61, 49, 38, 98, 61, 49>>) =>
          Slice(cc.buf, tr.queryAt + 1, cc.cur - tr.queryAt) = SortedExample

\* The first index from i on at which q holds '&', or Len(q) + 1
NextAmpersand(q, i) ==
    CHOOSE j \in i .. Len(q) + 1 :
        /\ j = Len(q) + 1 \/ q[j] = 38
        /\ \A k \in i .. j - 1 : q[k] # 38

\* The record of the parameter s, which has a key
ClaimedRecord(s) ==
    IF \E k \in 1 .. Len(s) : s[k] = 61
    THEN Bind(CHOOSE k \in 1 .. Len(s) :
                 s[k] = 61 /\ \A m \in 1 .. k - 1 : s[m] # 61,
              LAMBDA k : Pair(Slice(s, 1, k - 1), Slice(s, k + 1, Len(s) - k)))
    ELSE Pair(s, <<>>)

RECURSIVE ClaimedSplitFrom(_, _)
ClaimedSplitFrom(q, i) ==
    IF i > Len(q) THEN <<>>
    ELSE Bind(NextAmpersand(q, i), LAMBDA j :
         Bind(Slice(q, i, j - i), LAMBDA s :
            (IF Len(s) = 0 \/ s[1] = 61 THEN <<>> ELSE <<ClaimedRecord(s)>>)
                \o ClaimedSplitFrom(q, j + 1)))

\* One record per '&'-delimited parameter with a non-empty key
ClaimedSplit(query) == Bind(query, LAMBDA q : ClaimedSplitFrom(q, 1))

\* C9: splitting a query yields exactly one record per '&'-delimited
\* parameter whose key is non-empty: the key is the bytes before the first
\* '=', the value the bytes after it up to the next '&' or the end; a
\* parameter with an empty key gives no record and leaves its neighbours
\* alone. 'a=&b=1' gives (a,''),(b,'1'); 'a=' gives (a,''); 'a=1&&b=2'
\* gives (a,'1'),(b,'2').
C9_SplitRecords ==
    (pc = "qsort") => Records(qloc.loc, qloc.n) = ClaimedSplit(p.query)

RECURSIVE ClaimedBlockFrom(_, _)
ClaimedBlockFrom(recs, i) ==
    IF i > Len(recs) THEN <<>>
    ELSE ClaimedEncoding(recs[i].key, TRUE, FALSE)
            \o (IF Len(recs[i].value) = 0 THEN <<>>
                ELSE <<61>> \o ClaimedEncoding(recs[i].value, TRUE, TRUE))
            \o (IF i < Len(recs) THEN <<38>> ELSE <<>>)
            \o ClaimedBlockFrom(recs, i + 1)

\* C10: the canonical query block is, for the sorted records in order, the
\* encoded key, then '=' and the encoded value (with '=' double-encoded) if
\* the value is non-empty, the records set apart by one '&', and one
\* linefeed at the end; 'filter=a=b' gives 'filter=a%253Db'.
C10_QueryBlock ==
    (pc = "headers") =>
        Slice(cc.buf, tr.queryAt + 1, cc.cur - tr.queryAt)
            = Bind(Records(qloc.loc, qloc.n),
                   LAMBDA recs : ClaimedBlockFrom(recs, 1))
                \o <<LINEFEED_CHAR>>

---------------------------------------------------------------------------
(* C11: the cap on the number of query parameters *)

Last(s) == s[Len(s)]

\* The split of the query has just been done
QuerySplitDone ==
    /\ tr.steps # <<>>
    /\ Last(tr.steps) = "query"
    /\ "QUERY_IS_CANONICAL" \notin p.flags
    /\ pc \in {"qsort", "done"}

---------------------------------------------------------------------------
(* C12: the canonical headers *)

\* The cap on the number of headers
MaxHeaderPairs == 2

IsSpace(c) == c \in {32, 9}

ToLower(s) == [i \in 1 .. Len(s) |-> IF s[i] \in 65 .. 90 THEN s[i] + 32
                                     ELSE s[i]]

\* s without its leading and trailing whitespace
Trim(s) ==
    IF \A i \in 1 .. Len(s) : IsSpace(s[i]) THEN <<>>
    ELSE Bind(CHOOSE a \in 1 .. Len(s) :
                 ~IsSpace(s[a]) /\ \A k \in 1 .. a - 1 : IsSpace(s[k]),
              LAMBDA a :
         Bind(CHOOSE b \in 1 .. Len(s) :
                 ~IsSpace(s[b]) /\ \A k \in b + 1 .. Len(s) : IsSpace(s[k]),
              LAMBDA b : Slice(s, a, b - a + 1)))

RECURSIVE CollapseFrom(_, _)
\* s from index i on with every run of whitespace made one space
CollapseFrom(s, i) ==
    IF i > Len(s) THEN <<>>
    ELSE (IF ~IsSpace(s[i]) THEN <<s[i]>>
          ELSE IF i > 1 /\ IsSpace(s[i - 1]) THEN <<>>
          ELSE <<32>>) \o CollapseFrom(s, i + 1)

\* The first index from i on at which a CR LF starts, or Len(h) + 1
LineEnd(h, i) ==
    CHOOSE j \in i .. Len(h) + 1 :
        /\ j = Len(h) + 1 \/ (j < Len(h) /\ h[j] = 13 /\ h[j + 1] = 10)
        /\ \A k \in i .. j - 1 : ~(k < Len(h) /\ h[k] = 13 /\ h[k + 1] = 10)

\* The header of one line 'name:value'
ClaimedHeader(line) ==
    IF \E k \in 1 .. Len(line) : line[k] = 58
    THEN Bind(CHOOSE k \in 1 .. Len(line) :
                 line[k] = 58 /\ \A m \in 1 .. k - 1 : line[m] # 58,
              LAMBDA k :
                 Pair(Trim(ToLower(Slice(line, 1, k - 1))),
                      Bind(Trim(Slice(line, k + 1, Len(line) - k)),
                           LAMBDA v : CollapseFrom(v, 1))))
    ELSE Pair(Trim(ToLower(line)), <<>>)

RECURSIVE ClaimedHeadersFrom(_, _)
\* The headers of the lines from index i on, up to the first empty line
ClaimedHeadersFrom(h, i) ==
    IF i > Len(h) THEN <<>>
    ELSE Bind(LineEnd(h, i), LAMBDA j :
            IF j = i THEN <<>>
            ELSE <<ClaimedHeader(Slice(h, i, j - i))>>
                    \o ClaimedHeadersFrom(h, j + 2))

\* r put into the sorted sequence s after every header whose name is not
\* greater
InsertHeader(s, r) ==
    Bind(Cardinality({i \in 1 .. Len(s) : ~LexLess(r.key, s[i].key)}),
         LAMBDA n : SubSeq(s, 1, n) \o <<r>> \o SubSeq(s, n + 1, Len(s)))

RECURSIVE SortHeaders(_, _)
\* The first n headers sorted by name, input order kept among equal names
SortHeaders(recs, n) ==
    IF n = 0 THEN <<>>
    ELSE Bind(SortHeaders(recs, n - 1), LAMBDA s : InsertHeader(s, recs[n]))

ClaimedHeaders(headers) ==
    Bind(headers, LAMBDA h :
    Bind(ClaimedHeadersFrom(h, 1), LAMBDA recs : SortHeaders(recs, Len(recs))))

RECURSIVE ClaimedHeaderLines(_, _)
ClaimedHeaderLines(recs, i) ==
    IF i > Len(recs) THEN <<>>
    ELSE recs[i].key \o <<58>> \o recs[i].value \o <<LINEFEED_CHAR>>
            \o ClaimedHeaderLines(recs, i + 1)

RECURSIVE ClaimedSignedHeaders(_, _)
ClaimedSignedHeaders(recs, i) ==
    IF i > Len(recs) THEN <<>>
    ELSE recs[i].key \o (IF i < Len(recs) THEN <<59>> ELSE <<>>)
            \o ClaimedSignedHeaders(recs, i + 1)

\* Whether t is a run of consecutive bytes of s
Contains(s, t) ==
    \E i \in 0 .. Len(s) - Len(t) : Slice(s, i + 1, Len(t)) = t

\* C12: with HEADERS_ARE_CANONICAL clear the headers are parsed and the
\* canonical request holds, for each header, the line 'name:value\n' with
\* the name lowercased and trimmed and the value trimmed with its inner
\* whitespace runs collapsed, the lines sorted by name with input order kept
\* among equal names, and then the sorted names joined with ';'; more than
\* MAX_HEADER_PAIRS headers give MaxHeaderPairCountExceeded.
C12_HeadersCanonicalized ==
    ("HEADERS_ARE_CANONICAL" \notin p.flags /\ ~ub
        /\ \E i \in 1 .. Len(tr.steps) : tr.steps[i] = "headers") =>
        Bind(ClaimedHeaders(p.headers), LAMBDA recs :
            IF Len(recs) > MaxHeaderPairs
            THEN pc = "done" /\ status = "MaxHeaderPairCountExceeded"
            ELSE tr.hashed # <<>> =>
                    /\ Contains(tr.hashed, ClaimedHeaderLines(recs, 1))
                    /\ Contains(tr.hashed,
                                <<LINEFEED_CHAR>>
                                    \o ClaimedSignedHeaders(recs, 1)
                                    \o <<LINEFEED_CHAR>>))

---------------------------------------------------------------------------
(* C13: the string to sign *)

\* The algorithm line of the string to sign
ClaimedAlgorithm(pr) ==
    IF Len(pr.algorithm) # 0 THEN pr.algorithm ELSE SIGV4_AWS4_HMAC_SHA256

\* C13: after the string-to-sign step succeeds the buffer up to the cursor
\* holds the algorithm (the caller's if given with a non-zero length,
\* 'AWS4-HMAC-SHA256' otherwise), a linefeed, the 16 bytes of the date, a
\* linefeed, the scope 'YYYYMMDD/region/service/aws4_request', a linefeed,
\* and the lowercase hex of the hash of the canonical request that the
\* buffer held.
C13_StringToSignLayout ==
    (pc = "key") =>
        /\ Last(tr.steps) = "sts"
        /\ Slice(cc.buf, 1, cc.cur)
             = ClaimedAlgorithm(p) \o <<LINEFEED_CHAR>>
                 \o Slice(p.date, 1, 16) \o <<LINEFEED_CHAR>>
                 \o ScopeOf(p) \o <<LINEFEED_CHAR>>
                 \o LowerHex(Digest(tr.hashed))
        /\ Len(LowerHex(Digest(tr.hashed))) = 2 * DigestLen

\* The string-to-sign step has succeeded for a caller's own algorithm
C13_Witness ==
    /\ pc = "key"
    /\ p.algorithm = <<88>>
    /\ tr.hashed # <<>>
    /\ cc.buf[1] = 88

---------------------------------------------------------------------------
(* C14, C15: HMAC and the signing key *)

\* The B bytes of key, zero-padded, each XORed with pad
ClaimedPad(key, pad) ==
    [i \in 1 .. BlockLen |-> Xor(IF i <= Len(key) THEN key[i] ELSE 0, pad)]

\* K0 of RFC 2104: the key, or its hash when it is longer than a block
ClaimedK0(key) == IF Len(key) > BlockLen THEN Digest(key) ELSE key

\* H((K0 xor opad) || H((K0 xor ipad) || data))
ClaimedHmac(key, data) ==
    Bind(ClaimedK0(key), LAMBDA k0 :
    Bind(Digest(ClaimedPad(k0, 54) \o data), LAMBDA inner :
        Digest(ClaimedPad(k0, 92) \o inner)))

\* The signing key of the parameters pr
ClaimedSigningKey(pr) ==
    Bind(ClaimedHmac(SIGV4_HMAC_SIGNING_KEY_PREFIX \o pr.secret,
                     Slice(pr.date, 1, 8)), LAMBDA k1 :
    Bind(ClaimedHmac(k1, pr.region), LAMBDA k2 :
    Bind(ClaimedHmac(k2, pr.service), LAMBDA k3 :
        ClaimedHmac(k3, CREDENTIAL_SCOPE_TERMINATOR))))

\* C14: on success generateSigningKey returns
\* HMAC(HMAC(HMAC(HMAC('AWS4' || secret, first 8 bytes of the date), region),
\* service), 'aws4_request'), each stage keyed by the whole digest of the
\* stage before and starting from an empty accumulated key.
C14_SigningKeyChain ==
    (pc = "hex") =>
        /\ Last(tr.steps) = "key"
        /\ sk.len = DigestLen
        /\ Slice(cc.buf, sk.off + 1, sk.len) = ClaimedSigningKey(p)
        /\ hmacCtx.keyLen = 0

\* A signing key has been derived from a secret that, with its prefix, is
\* longer than a block, and from one that is not
C14_Witness ==
    /\ pc = "hex"
    /\ Len(p.secret) + 4 > BlockLen
    /\ sk.len = DigestLen
    /\ Len(tr.key) = DigestLen

\* C15: for every key and data completeHmac gives
\* H((K0 xor opad) || H((K0 xor ipad) || data)), ipad being B bytes of 0x36,
\* opad B bytes of 0x5C, and K0 the key zero-padded to B bytes when it is at
\* most B bytes long (a key of exactly B bytes is not hashed) and H(key)
\* zero-padded when it is longer.
C15_HmacIsRfc2104 ==
    (pc = "done" /\ out.rc = 0) =>
        /\ out.mac = ClaimedHmac(p.key, p.data)
        /\ Len(out.mac) = DigestLen

\* completeHmac has returned a MAC for a key of exactly a block
C15_Witness ==
    /\ pc = "done"
    /\ out.rc = 0
    /\ Len(p.key) = BlockLen
    /\ p.data # <<>>
    /\ Len(out.mac) = DigestLen
    /\ Len(hs.log) = 8

---------------------------------------------------------------------------
(* C16: stores stay inside the processing buffer *)

\* Every member is given and the query has no more parameters than
\* pQueryLoc has room for, so that nothing but a store past the end of the
\* processing buffer is undefined
C16Inputs ==
    /\ p.missing = {}
    /\ \/ "QUERY_IS_CANONICAL" \in p.flags
       \/ Len(ClaimedSplit(p.query)) <= MaxQueryPairs

\* C16: no step of a signing call stores a byte at an offset of
\* PROCESSING_LEN or more from the start of the processing buffer; when the
\* content does not fit the call returns InsufficientMemory instead.
C16_NoStorePastBuffer ==
    C16Inputs => (~ub /\ cc.cur <= ProcessingLen)

---------------------------------------------------------------------------
(* C17, C18, C19: the date call *)

\* Whether year is a leap year
ClaimedLeapYear(year) ==
    year % 4 = 0 /\ (year % 100 # 0 \/ year % 400 = 0)

\* The number of days of the month mon of year
ClaimedMonthLength(year, mon) ==
    IF mon = 2 THEN (IF ClaimedLeapYear(year) THEN 29 ELSE 28)
    ELSE IF mon \in {4, 6, 9, 11} THEN 30
    ELSE 31

\* Whether the fields f make a date that passes validation
ClaimedValidDate(f) ==
    /\ f.year >= 1900
    /\ f.mon \in 1 .. 12
    /\ f.mday >= 1
    /\ f.mday <= ClaimedMonthLength(f.year, f.mon)
    /\ f.hour <= 23
    /\ f.min <= 59
    /\ f.sec <= 60

\* YYYYMMDD 'T' HHMMSS 'Z'
ClaimedIso(f) ==
    Dec(f.year, 4) \o Dec(f.mon, 2) \o Dec(f.mday, 2) \o <<84>>
        \o Dec(f.hour, 2) \o Dec(f.min, 2) \o Dec(f.sec, 2) \o <<90>>

\* The call was given both pointers, a date of 20 or 29 bytes and room for
\* 16 bytes, and has returned
DateCallDone ==
    /\ pc = "done"
    /\ p.missing = {}
    /\ Len(p.date) \in {20, 29}
    /\ p.cap >= 16

\* C17: for every date that passes validation, the call on its RFC 3339
\* form (20 bytes) and on its RFC 5322 form (29 bytes) returns Success and
\* writes exactly the 16 bytes YYYYMMDD 'T' HHMMSS 'Z' with the same year,
\* month, day, hour, minute and second, each zero-padded to its width.
C17_DateRoundTrip ==
    (DateCallDone /\ p.shaped /\ ClaimedValidDate(p.fields)) =>
        /\ status = "Success"
        /\ Slice(out.buf, 1, 16) = ClaimedIso(p.fields)
        /\ \A i \in 17 .. p.cap : out.buf[i] = OutFill

\* A leap day in the RFC 5322 form has been converted
C17_Witness ==
    /\ DateCallDone
    /\ Len(p.date) = 29
    /\ p.fields.year = 2020 /\ p.fields.mon = 2 /\ p.fields.mday = 29
    /\ p.fields.sec = 60
    /\ status = "Success"
    /\ out.buf[1] = 50

\* C18: the call returns ISOFormattingError exactly when the well-shaped
\* input fails parsing or validation: a literal character differs from the
\* format, a numeric field holds a non-digit, the month name is unknown,
\* year < 1900, month outside 1..12, day < 1 or beyond the month's length
\* (29 days in February only in a leap year, never 30), hour > 23,
\* minute > 59 or second > 60; second = 60 is accepted.
\* 2020-02-29T00:00:00Z succeeds and 2019-02-29T00:00:00Z fails.
C18_FormattingErrorExactly ==
    DateCallDone =>
        /\ (status = "ISOFormattingError")
             <=> (~p.shaped \/ ~ClaimedValidDate(p.fields))
        /\ (p.date = Rfc3339([year |-> 2020, mon |-> 2, mday |-> 29,
                              hour |-> 0, min |-> 0, sec |-> 0]))
             => status = "Success"
        /\ (p.date = Rfc3339([year |-> 2019, mon |-> 2, mday |-> 29,
                              hour |-> 0, min |-> 0, sec |-> 0]))
             => status = "ISOFormattingError"

\* 29 February 2100 has been refused
C18_Witness ==
    /\ DateCallDone
    /\ p.shaped
    /\ p.fields.year = 2100 /\ p.fields.mon = 2 /\ p.fields.mday = 29
    /\ p.fields.hour = 0 /\ p.fields.sec = 0
    /\ status = "ISOFormattingError"

\* C19: the call returns InvalidParameter, without parsing, when the input
\* or the output pointer is missing, when the input length is neither 20
\* nor 29, or when the output capacity is below 16; and on every return
\* other than Success no byte of the output buffer has been modified.
C19_InvalidParameterAndFrame ==
    (pc = "done") =>
        /\ (p.missing # {} \/ Len(p.date) \notin {20, 29} \/ p.cap < 16)
             => (status = "InvalidParameter" /\ tr.steps = <<>>)
        /\ status \in {"Success", "InvalidParameter", "ISOFormattingError"}
        /\ status # "Success"
             => \A i \in 1 .. p.cap : out.buf[i] = OutFill

\* A well-formed date has been refused for an output buffer of 15 bytes
C19_Witness ==
    /\ pc = "done"
    /\ p.missing = {}
    /\ Len(p.date) = 20
    /\ p.cap = 15
    /\ status = "InvalidParameter"
    /\ tr.steps = <<>>

---------------------------------------------------------------------------
(* C20: a failing hash call *)

\* A hash call of the signing call has returned nonzero
HashFailed == hs.failAt > 0 /\ Len(hs.log) >= hs.failAt

\* C20: whenever a hash_init, hash_update or hash_final call made during a
\* signing call returns nonzero, the signing call returns HashError, and
\* after that first failing call no further hash operation is invoked and
\* no later step of the pipeline runs.
C20_HashFailureStops ==
    /\ [](HashFailed =>
            /\ pc = "done"
            /\ status = "HashError"
            /\ Len(hs.log) = hs.failAt
            /\ Last(tr.steps) \in {"payload", "sts", "key"})
    /\ [][~HashFailed]_vars

\* The hash_final that ends the hashing of an over-long key has failed
\* while the signing key was derived
C20_Witness ==
    /\ HashFailed
    /\ pc = "done"
    /\ status = "HashError"
    /\ Last(tr.steps) = "key"
    /\ Len(p.secret) > BlockLen
    /\ hs.log[hs.failAt].op = "final"
    /\ hs.log[hs.failAt - 1].op = "update"
    /\ hs.failAt = 10

---------------------------------------------------------------------------
(* C21: what a failing call leaves *)

\* The call has returned a status other than Success
ReturnedFailure ==
    pc = "done" /\ status \in SigV4Statuses /\ status # "Success"

---------------------------------------------------------------------------
(* C22: signing what an earlier call canonicalized *)

RECURSIVE WriteLines(_, _, _)
\* The lines from index i on written one after the other, up to the first
\* that does not fit
WriteLines(c, lines, i) ==
    IF i > Len(lines) THEN [c |-> c, status |-> "Success"]
    ELSE Bind(writeLineToCanonicalRequest(c, lines[i]), LAMBDA r :
            IF r.status # "Success" THEN r
            ELSE WriteLines(r.c, lines, i + 1))

\* Lines 1854-1933 of a call with PATH_IS_CANONICAL, QUERY_IS_CANONICAL and
\* HEADERS_ARE_CANONICAL set: the context after the headers step
CanonicalCall(method, path, query, headers) ==
    WriteLines(ContextInit,
               <<method, IF Len(path) = 0 THEN HTTP_EMPTY_PATH ELSE path,
                 query, headers>>, 1)

\* The call has built its canonical request up to the headers
HeadersDone == pc = "payload" /\ status = "Success" /\ ~ub

\* The bytes the headers step has stored, and the headers it has produced
HeadersStored ==
    IF "HEADERS_ARE_CANONICAL" \in p.flags THEN Len(p.headers) + 1 ELSE 0

ProducedHeaders ==
    IF "HEADERS_ARE_CANONICAL" \in p.flags THEN p.headers ELSE <<>>

\* The offsets the query block starts and ends at
QueryStart ==
    IF "QUERY_IS_CANONICAL" \in p.flags
    THEN cc.cur - HeadersStored - (Len(p.query) + 1)
    ELSE tr.queryAt

QueryEnd == cc.cur - HeadersStored

\* The canonical URI and the canonical query of the call, without their
\* linefeeds
ProducedUri ==
    Slice(cc.buf, Len(p.method) + 2, QueryStart - Len(p.method) - 2)

ProducedQuery == Slice(cc.buf, QueryStart + 1, QueryEnd - QueryStart - 1)

\* C22: the canonical URI, canonical query and canonical headers produced
\* by one signing call, passed back as path, query and headers with
\* PATH_IS_CANONICAL, QUERY_IS_CANONICAL and HEADERS_ARE_CANONICAL set, give
\* a byte-identical canonical request.
C22_CanonicalIdempotent ==
    HeadersDone =>
        \E r \in {CanonicalCall(p.method, ProducedUri, ProducedQuery,
                                ProducedHeaders)} :
            /\ r.status = "Success"
            /\ Slice(r.c.buf, 1, r.c.cur) = Slice(cc.buf, 1, cc.cur)

---------------------------------------------------------------------------
(* C23: two calls at once *)

---------------------------------------------------------------------------
(* C24: the capacity check of the signing key *)

\* C24: generateSigningKey returns InsufficientMemory, and writes nothing
\* into the arena, whenever the bytes remaining in the arena at entry are
\* fewer than 2 * digest_len.
C24_SigningKeyCapacity ==
    [][(pc = "key" /\ cc.rem < 2 * DigestLen) =>
          (status' = "InsufficientMemory" /\ cc'.buf = cc.buf)]_vars

---------------------------------------------------------------------------
(* C25: the arena *)

\* C25: after every pipeline step of a signing call (method line, canonical
\* URI, canonical query, headers line, payload hash, string to sign,
\* signing-key derivation), on its success and on its error return,
\* (cursor - arena_start) + remaining = PROCESSING_LEN and
\* cursor <= arena_end.
C25_ArenaInvariant ==
    (tr.steps # <<>> /\ Last(tr.steps) # "hex"
        /\ pc \notin {"qsort", "qwrite"}) =>
        /\ cc.cur + cc.rem = ProcessingLen
        /\ cc.cur <= ProcessingLen

---------------------------------------------------------------------------
(* C26: a key supplied in chunks *)

\* The MAC of hmacKey(key); hmacData(data); hmacFinal on a fresh context
WholeKeyMac(key, data) ==
    completeHmac(HmacContextInit, [acc |-> <<>>, log |-> <<>>, failAt |-> 0],
                 key, data, DigestLen).mac

\* C26: supplying an HMAC key in chunks is equivalent to supplying it
\* whole: for every split of a key K into chunks K1..Kn (any lengths, empty
\* chunks and splits that cross the block length B included),
\* hmacKey(K1)..hmacKey(Kn); hmacData(D); hmacFinal yields the same MAC as
\* hmacKey(K); hmacData(D); hmacFinal; the key is buffered directly while
\* the accumulated length is <= B and is replaced by hash(K1 || .. || Kn)
\* once it exceeds B.
C26_ChunkedKey ==
    /\ pc = "done" =>
          (out.rc = 0 /\ out.mac = WholeKeyMac(p.key, p.data))
    /\ (pc = "data" /\ Len(p.key) <= BlockLen) =>
          /\ hmacCtx.keyLen = Len(p.key)
          /\ KeyBytes(hmacCtx, Len(p.key)) = p.key
          /\ hs.log = <<>>
    /\ (pc = "final" /\ Len(p.key) > BlockLen) =>
          hmacCtx.key = ClaimedPad(Digest(p.key), 54)
    /\ (pc = "final" /\ Len(p.key) <= BlockLen) =>
          hmacCtx.key = ClaimedPad(p.key, 54)

\* A key longer than a block, given in three chunks of which the second
\* crosses the block length and the third is not empty, has been used
C26_Witness ==
    /\ pc = "done"
    /\ Len(p.chunks) = 3
    /\ Len(p.key) > BlockLen
    /\ Len(p.chunks[1]) > 0
    /\ Len(p.chunks[1]) < BlockLen
    /\ Len(p.chunks[1]) + Len(p.chunks[2]) > BlockLen
    /\ Len(p.chunks[3]) > 0
    /\ out.rc = 0
    /\ Len(out.mac) = DigestLen

---------------------------------------------------------------------------
(* C27: quickSort *)

\* C27: quickSort(base, count, stride, comparator), for every count >= 0
\* (count = 1 included) and every comparator that is a total preorder,
\* terminates having read and written only the items at indices
\* 0..count-1 and the scratch slots it allocated, and leaves the array a
\* permutation of its input in which no item compares greater than its
\* successor.
C27_QuickSortSorts ==
    (pc # "sort" /\ ~p.null) =>
        /\ pc = "done"
        /\ ~ub
        /\ out.array \in Rearranged(p.array)
        /\ \A i \in 1 .. Len(out.array) - 1 :
              comparator(out.array[i], out.array[i + 1]) <= 0

---------------------------------------------------------------------------
(* C28: the comparators leave no ties *)

\* -1, 0 or 1 as a comes before, is, or comes after b, bytes compared as
\* unsigned and the shorter of two prefix-related strings first
ClaimedSign(a, b) ==
    IF a = b THEN 0 ELSE IF LexLess(a, b) THEN -1 ELSE 1

Sign(n) == IF n < 0 THEN -1 ELSE IF n > 0 THEN 1 ELSE 0

\* C28: the record comparators define a total order with no ties: for any
\* two records that differ as byte strings (query comparator: in key or
\* value; key comparator: in key, also when one key is a proper prefix of
\* the other or the keys hold a zero byte), the comparator returns a
\* non-zero value, comparing bytes as unsigned and placing the shorter of
\* two prefix-related strings first, and cmp(a,b) and cmp(b,a) have
\* opposite signs.
C28_ComparatorsNoTies ==
    pc = "done" =>
        /\ p.first # p.second =>
              /\ Sign(out.query)
                   = (IF p.first.key # p.second.key
                      THEN ClaimedSign(p.first.key, p.second.key)
                      ELSE ClaimedSign(p.first.value, p.second.value))
              /\ Sign(out.queryBack) = 0 - Sign(out.query)
        /\ p.first.key # p.second.key =>
              /\ Sign(out.key) = ClaimedSign(p.first.key, p.second.key)
              /\ Sign(out.keyBack) = 0 - Sign(out.key)

---------------------------------------------------------------------------
(* C29: stores into the query record table *)

\* C29: while a query of any length is split, every store into the query
\* record table targets an index in 0..MAX_QUERY_PAIRS-1: the parameter
\* count is checked against the cap before, not after, the record at index
\* MAX_QUERY_PAIRS would be written.
C29_RecordStoresInTable ==
    [][(pc = "query" /\ "QUERY_IS_CANONICAL" \notin p.flags) =>
          (~ub' /\ ~setQueryStringFieldsAndValues(p.query).oob)]_vars

---------------------------------------------------------------------------
(* C30: the calls made on the hash context *)

RECURSIVE WellFormedFrom(_, _, _)
\* Whether the calls of log from index i on follow the protocol, a
\* computation being under way (started and not finalized) iff open
WellFormedFrom(log, i, open) ==
    IF i > Len(log) THEN TRUE
    ELSE IF log[i].op = "init"
    THEN ~open /\ WellFormedFrom(log, i + 1, TRUE)
    ELSE IF log[i].op = "update"
    THEN open /\ WellFormedFrom(log, i + 1, TRUE)
    ELSE open /\ WellFormedFrom(log, i + 1, FALSE)

\* C30: throughout any signing call, HMACs with keys longer than the block
\* length and calls that end in an error included, every hash_update and
\* every hash_final is preceded by a hash_init with no hash_final in
\* between, and each computation that was started is finalized before the
\* next hash_init unless a hash call has failed.
C30_HashProtocol == WellFormedFrom(hs.log, 1, FALSE)

\* A call with a secret that makes the first HMAC key longer than a block
\* has returned Success: the key was hashed, finalized in hmacData, and the
\* inner hash started right after
C30_Witness ==
    /\ pc = "done"
    /\ status = "Success"
    /\ Len(p.secret) > BlockLen
    /\ Len(hs.log) > 12
    /\ hs.log[7].op = "init"
    /\ hs.log[10].op = "final"
    /\ hs.log[11].op = "init"

===========================================================================
